---- MODULE Spec2Model ----
(***************************************************************************)
(* Model of the agent-run cache, the tracked-run registry, the sync        *)
(* engine, the status-change detector and the monitoring scheduler of the  *)
(* Codegen Raycast extension (src/src/storage/agentRunCache.ts,            *)
(* src/src/utils/backgroundMonitoring.ts, src/src/monitor-agent-runs.tsx). *)
(*                                                                         *)
(* Times are integers (milliseconds).  The code stores them as ISO-8601    *)
(* strings (Date.toISOString) and reads them back with new Date(s); that   *)
(* round trip is exact on whole milliseconds, so a stored time is the      *)
(* integer it was written from.                                            *)
(***************************************************************************)
EXTENDS Integers, Sequences, FiniteSets, TLC

VARIABLES
  now,          \* wall clock, ms
  ticks,        \* number of clock advances so far
  remote,       \* remote job source: <<org, run>> -> [status, ver]
  rver,         \* number of remote status changes so far (stamps remote[k].ver)
  tracked,      \* Cache blobs tracked-runs-org-<o>-run-<r>: <<o, r>> -> entry
  keyIndex,     \* LocalStorage cache-keys-tracked-runs-org-<o>-: o -> Seq(run id)
  trackedOrgs,  \* LocalStorage cache-keys-tracked-organizations: Seq(org)
  runCache,     \* Cache blobs agent-runs-org-<o>: o -> Seq(AgentRunCacheEntry)
  metadata,     \* AgentRunCache.metadata.organizationSyncStatus: o -> time
  syncStatus,   \* LocalStorage sync-status-<o>: o -> SyncState
  pass,         \* monitoring passes in flight: pass id -> pass record
  npass,        \* number of passes begun so far
  sync,         \* the syncAgentRuns call in flight, or its result
  nsync,        \* number of syncAgentRuns calls so far
  view,         \* useCachedAgentRuns: the runs loadCachedData last read
  nops,         \* number of user operations so far
  emitted,      \* every StatusChange pushed by checkForStatusChanges, in order
  notified,     \* every StatusChange handed to notifyStatusChange, in order
  removed,      \* every tracked entry removed by cleanupCompletedRuns
  termAt,       \* <<o, r>> -> time lastKnownStatus last became terminal
  decision,     \* what notifyStatusChange last decided, with its arguments
  sched,        \* BackgroundMonitoringService: isRunning, intervalId, timers
  schedHist,    \* the scheduler's calls so far: passes begun, stop() calls
  polling,      \* useCachedAgentRuns: what getPollingRuns last returned
  corrupt       \* the stored strings that JSON.parse rejects: <<kind, org, run>>

vars == <<now, ticks, remote, rver, tracked, keyIndex, trackedOrgs, runCache,
          metadata, syncStatus, pass, npass, sync, nsync, view, nops, emitted,
          notified, removed, termAt, decision, sched, schedHist, polling,
          corrupt>>

clockVars == <<now, ticks>>
syncVars == <<syncStatus, sync, nsync, view>>
remoteVars == <<remote, rver>>
trackVars == <<tracked, keyIndex, trackedOrgs>>
cacheVars == <<runCache, metadata>>
histVars == <<emitted, notified, removed>>
serviceVars == <<decision, sched, schedHist, polling>>

(***************************************************************************)
(* Bounds of the model                                                     *)
(***************************************************************************)
MaxTicks == 1           \* clock advances
MaxRemoteChanges == 2   \* remote status changes
MaxOps == 2             \* user operations (track a run, ...)
MaxPasses == 2          \* monitoring passes begun

Orgs == {1, 2}
RunIds == {1, 2}
PassIds == {1, 2}

(***************************************************************************)
(* Program constants                                                       *)
(***************************************************************************)
MINUTE == 60 * 1000
HOUR == 1000 * 60 * 60
TTL == 5 * 60 * 1000                \* CACHE_CONFIGS["agent-runs"].ttl
CLEANUP_HOURS == 24             \* cleanupCompletedRuns: hoursSinceCompleted > 24
MONITORING_INTERVAL == 30000
POLL_INTERVAL == 30000              \* setInterval(pollActiveRuns, 30000)

\* JavaScript null (and any falsy status)
Null == "null"

\* AgentRunStatus, src/src/api/types.ts
StatusList == <<"ACTIVE", "COMPLETE", "PAUSED", "ERROR", "EVALUATION",
                "CANCELLED", "TIMEOUT", "MAX_ITERATIONS_REACHED",
                "OUT_OF_TOKENS", "FAILED", "PENDING">>
AgentRunStatus == {StatusList[i] : i \in 1..Len(StatusList)}

\* the statuses the remote job source moves through under Spec
RemoteStatuses == {"ACTIVE", "COMPLETE", Null}

\* the clock advances by one of these amounts
Jumps == {MINUTE, CLEANUP_HOURS * HOUR + MINUTE}

(***************************************************************************)
(* Key-value helpers: a store is a function whose domain is its key set    *)
(***************************************************************************)
Put(f, k, v) == [x \in DOMAIN f \cup {k} |-> IF x = k THEN v ELSE f[x]]
Del(f, k) == [x \in DOMAIN f \ {k} |-> f[x]]

\* Array.prototype.includes
Includes(s, x) == \E i \in 1..Len(s) : s[i] = x

(***************************************************************************)
(* Remote job source (external collaborator)                               *)
(***************************************************************************)
\* created_at of a run, assigned by the remote system
CreatedAt(r) == r * 1000

\* The remote status of a run the client has never fetched is unknown to it;
\* the first fetch finds the run in some status s.
FirstFetch(rem, o, r, s) ==
  IF <<o, r>> \in DOMAIN rem THEN rem
  ELSE Put(rem, <<o, r>>, [status |-> s, ver |-> 0])

\* apiClient.getAgentRun(org, id) when it succeeds
RemoteRun(rem, o, r) ==
  [id |-> r, status |-> rem[<<o, r>>].status, created_at |-> CreatedAt(r)]

(***************************************************************************)
(* Run cache                                                               *)
(***************************************************************************)
NoExpiry == -1

\* (mutant) an entry is kept up to and including its expiry time
EntryLiveInclusive(entry, t) ==
  IF entry.expiresAt # NoExpiry THEN entry.expiresAt >= t ELSE TRUE

\* the filter of getAgentRuns
EntryLive(entry, t) ==
  IF entry.expiresAt # NoExpiry THEN entry.expiresAt > t ELSE TRUE

\* (mutant) the runs are returned in stored order
SortByCreatedAtNone(s) == s

\* .sort((a, b) => Date(b.created_at) - Date(a.created_at)): descending and
\* stable; the element at index i lands after every element with a larger
\* key and after the earlier elements with an equal key
SortByCreatedAtDesc(s) ==
  LET pos(i) == 1 + Cardinality({j \in 1..Len(s) : s[j].created_at > s[i].created_at})
                  + Cardinality({j \in 1..(i - 1) : s[j].created_at = s[i].created_at})
  IN [p \in 1..Len(s) |-> s[CHOOSE i \in 1..Len(s) : pos(i) = p]]

\* (mutant) getAgentRuns returns the expired entries too
LiveEntriesAll(blob, t) == blob

\* the entries of a blob that getAgentRuns keeps at time t
LiveEntries(blob, t) == SelectSeq(blob, LAMBDA e : EntryLive(e, t))

\* JSON.parse(stored) returns: the string stored under the key is well formed
Parses(kind, o, r) == <<kind, o, r>> \notin corrupt

\* getAgentRuns(organizationId) on cache contents rc at time t; nothing
\* cached, or a string JSON.parse rejects (the catch), gives []
GetAgentRuns(rc, o, t) ==
  IF o \notin DOMAIN rc \/ ~Parses("runs", o, 0) THEN <<>>
  ELSE LET live == LiveEntries(rc[o], t)
       IN SortByCreatedAtDesc([i \in 1..Len(live) |-> live[i].data])

\* (mutant) a run waiting to start is polled too
ShouldPollRunOrPending(run) ==
  run.status = "ACTIVE" \/ run.status = "EVALUATION" \/ run.status = "PENDING"

\* shouldPollRun
ShouldPollRun(run) == run.status = "ACTIVE" \/ run.status = "EVALUATION"

\* (mutant) the entry expires a minute after the write
MakeEntryShortLived(run, t) ==
  [data |-> run, timestamp |-> t, expiresAt |-> t + MINUTE,
   isPolling |-> ShouldPollRun(run)]

\* the entry setAgentRuns builds for one run
MakeEntry(run, t) ==
  [data |-> run, timestamp |-> t, expiresAt |-> t + TTL,
   isPolling |-> ShouldPollRun(run)]

\* setAgentRuns: the blob written for the organization
SetAgentRunsBlob(runs, t) == [i \in 1..Len(runs) |-> MakeEntry(runs[i], t)]

\* setAgentRuns(organizationId, runs) at time t: the new cache contents
SetAgentRuns(rc, o, runs, t) == Put(rc, o, SetAgentRunsBlob(runs, t))

\* (mutant) the run is always added at the beginning
UpsertRunUnshiftOnly(runs, run) == <<run>> \o runs

\* updateAgentRun: replace the run with the same id, or unshift
UpsertRun(runs, run) ==
  IF \E i \in 1..Len(runs) : runs[i].id = run.id
  THEN LET k == CHOOSE i \in 1..Len(runs) :
                  runs[i].id = run.id /\ \A j \in 1..(i - 1) : runs[j].id # run.id
       IN [runs EXCEPT ![k] = run]
  ELSE <<run>> \o runs

\* updateAgentRun(organizationId, run) at time t
UpdateAgentRun(rc, o, run, t) ==
  SetAgentRuns(rc, o, UpsertRun(GetAgentRuns(rc, o, t), run), t)

(***************************************************************************)
(* Tracked-run registry                                                    *)
(***************************************************************************)
\* (mutant) the tracked runs are left in key-index order
SortByAddedAtNone(s) == s

\* .sort((a, b) => Date(b.addedAt) - Date(a.addedAt)): descending and stable
SortByAddedAtDesc(s) ==
  LET pos(i) == 1 + Cardinality({j \in 1..Len(s) : s[j].addedAt > s[i].addedAt})
                  + Cardinality({j \in 1..(i - 1) : s[j].addedAt = s[i].addedAt})
  IN [p \in 1..Len(s) |-> s[CHOOSE i \in 1..Len(s) : pos(i) = p]]

\* (mutant) the key of the run is not added to the index
AddKeyDropped(keys, r) == keys

\* addKeyToTracking: the run-key index of the organization
AddKey(keys, r) == IF Includes(keys, r) THEN keys ELSE Append(keys, r)

\* getAllKeysWithPrefix: the key index of the organization; none stored, or
\* one JSON.parse rejects, gives []
GetAllKeysWithPrefix(idx, o) ==
  IF o \in DOMAIN idx /\ Parses("index", o, 0) THEN idx[o] ELSE <<>>

\* (mutant) one entry that cannot be parsed makes the whole list empty
GetTrackedRunsAllOrNothing(tk, idx, o) ==
  LET keys == GetAllKeysWithPrefix(idx, o)
      present == SelectSeq(keys, LAMBDA r : <<o, r>> \in DOMAIN tk)
  IN IF \E i \in 1..Len(present) : ~Parses("tracked", o, present[i]) THEN <<>>
     ELSE SortByAddedAtDesc([i \in 1..Len(present) |-> tk[<<o, present[i]>>].data])

\* (mutant) an indexed key with no stored entry is an error: the catch
\* returns []
GetTrackedRunsMissingThrows(tk, idx, o) ==
  LET keys == GetAllKeysWithPrefix(idx, o)
  IN IF \E i \in 1..Len(keys) : <<o, keys[i]>> \notin DOMAIN tk THEN <<>>
     ELSE SortByAddedAtDesc([i \in 1..Len(keys) |-> tk[<<o, keys[i]>>].data])

\* getTrackedRuns(organizationId): the entries of the indexed keys that are
\* stored and parse, newest addedAt first; an entry JSON.parse rejects is
\* logged and skipped
GetTrackedRuns(tk, idx, o) ==
  LET keys == GetAllKeysWithPrefix(idx, o)
      present == SelectSeq(keys, LAMBDA r : <<o, r>> \in DOMAIN tk
                                            /\ Parses("tracked", o, r))
  IN SortByAddedAtDesc([i \in 1..Len(present) |-> tk[<<o, present[i]>>].data])

\* completedStatuses of cleanupCompletedRuns
CompletedStatuses == {"COMPLETE", "ERROR", "CANCELLED", "TIMEOUT",
                      "MAX_ITERATIONS_REACHED", "OUT_OF_TOKENS"}

\* (mutant) a run added exactly 24 hours ago is removed too
ShouldCleanupAtLeast(tr, t) ==
  /\ tr.lastKnownStatus # Null
  /\ tr.lastKnownStatus \in {"COMPLETE", "ERROR", "CANCELLED", "TIMEOUT",
                              "MAX_ITERATIONS_REACHED", "OUT_OF_TOKENS"}
  /\ (t - tr.addedAt) >= 24 * 3600000

\* the test cleanupCompletedRuns makes on one tracked run at time t
ShouldCleanup(tr, t) ==
  /\ tr.lastKnownStatus # Null
  /\ tr.lastKnownStatus \in CompletedStatuses
  /\ (t - tr.addedAt) > CLEANUP_HOURS * HOUR

\* (mutant) every fetched status counts as changed
StatusChangedAlways(currentStatus, lastKnownStatus) == TRUE

\* the comparison of checkForStatusChanges
StatusChanged(currentStatus, lastKnownStatus) == currentStatus # lastKnownStatus

\* newStatus of the emitted change: currentRun.status || "UNKNOWN"
NewStatusOf(currentStatus) == IF currentStatus = Null THEN "UNKNOWN" ELSE currentStatus

\* (mutant) the registry write is dropped
UpdateTrackedRunStatusDropped(tk, o, r, newStatus, t) == tk

\* (mutant) a status that is never notified is not written
UpdateTrackedRunStatusUnlessEvaluation(tk, o, r, newStatus, t) ==
  IF <<o, r>> \in DOMAIN tk /\ newStatus # "EVALUATION"
  THEN [tk EXCEPT ![<<o, r>>] =
          [@ EXCEPT !.data.lastKnownStatus = newStatus, !.timestamp = t]]
  ELSE tk

\* updateTrackedRunStatus: write lastKnownStatus and timestamp if the blob exists
UpdateTrackedRunStatus(tk, o, r, newStatus, t) ==
  IF <<o, r>> \in DOMAIN tk
  THEN [tk EXCEPT ![<<o, r>>] =
          [@ EXCEPT !.data.lastKnownStatus = newStatus, !.timestamp = t]]
  ELSE tk

(***************************************************************************)
(* Environment: the clock and the remote job source                        *)
(***************************************************************************)
Tick(d) ==
  /\ now' = now + d
  /\ ticks' = ticks + 1
  /\ UNCHANGED <<corrupt, serviceVars, remoteVars, trackVars, cacheVars, pass, npass,
                 syncVars, nops, histVars, termAt>>

\* the remote system moves run r of organization o to status s
RemoteChange(o, r, s) ==
  /\ rver < MaxRemoteChanges
  /\ <<o, r>> \in DOMAIN remote
  /\ remote[<<o, r>>].status # s
  /\ rver' = rver + 1
  /\ remote' = [remote EXCEPT ![<<o, r>>] = [status |-> s, ver |-> rver + 1]]
  /\ UNCHANGED <<corrupt, serviceVars, clockVars, trackVars, cacheVars, pass, npass,
                 syncVars, nops, histVars, termAt>>

(***************************************************************************)
(* addToTracking                                                           *)
(***************************************************************************)
\* the TrackedAgentRunCacheEntry addToTracking writes
NewTrackedEntry(o, run, t) ==
  [data |-> [id |-> run.id, organizationId |-> o,
             lastKnownStatus |-> run.status,
             createdAt |-> run.created_at, addedAt |-> t],
   timestamp |-> t]

\* (mutant) the organization is pushed whether or not the list has it
AddOrgAlways(orgIds, o) == Append(orgIds, o)

\* addKeyToTracking: the tracked-organizations list
AddOrg(orgIds, o) == IF Includes(orgIds, o) THEN orgIds ELSE Append(orgIds, o)

\* when lastKnownStatus of <<o, r>> is set to s at time t
TermAtAfter(ta, tk, k, s, t) ==
  IF s \in CompletedStatuses
  THEN IF k \in DOMAIN tk /\ k \in DOMAIN ta
          /\ tk[k].data.lastKnownStatus \in CompletedStatuses
       THEN ta ELSE Put(ta, k, t)
  ELSE Del(ta, k)

\* addToTracking(organizationId, agentRun), preceded by the caller's
\* updateAgentRun (create-agent-run.tsx, list-agent-runs.tsx)
AddToTracking(o, run) ==
  /\ tracked' = Put(tracked, <<o, run.id>>, NewTrackedEntry(o, run, now))
  /\ keyIndex' = Put(keyIndex, o,
                     AddKey(IF o \in DOMAIN keyIndex THEN keyIndex[o] ELSE <<>>,
                            run.id))
  /\ trackedOrgs' = AddOrg(trackedOrgs, o)
  /\ runCache' = UpdateAgentRun(UpdateAgentRun(runCache, o, run, now), o, run, now)
  /\ metadata' = Put(metadata, o, now)
  /\ termAt' = TermAtAfter(termAt, tracked, <<o, run.id>>, run.status, now)

\* the user adds run r of organization o by id: fetch it, cache it, track it
TrackRun(o, r, s) ==
  /\ nops < MaxOps
  /\ nops' = nops + 1
  /\ remote' = FirstFetch(remote, o, r, s)
  /\ AddToTracking(o, RemoteRun(remote', o, r))
  /\ UNCHANGED <<corrupt, serviceVars, clockVars, rver, pass, npass, syncVars, histVars>>

(***************************************************************************)
(* Notification policy: RaycastNotificationManager (utils/notifications.ts) *)
(* A title is <<run id, label>> for `Agent Run #<id> • <label>`, a message  *)
(* is a tuple of its parts; the empty string is <<>>.                       *)
(***************************************************************************)
\* the result that sends nothing
NoNotification ==
  [title |-> <<>>, message |-> <<>>, style |-> "Success", shouldNotify |-> FALSE]

\* !oldStatus: null, undefined or the empty string, all modelled by Null
Falsy(s) == s = Null

\* (mutant) the switch with the style of a failed run set to Success
SwitchOnNewStatusAllSuccess(agentRunId, oldStatus, newStatus) ==
  IF newStatus = "ACTIVE" /\ ~(~Falsy(oldStatus) /\ oldStatus # "ACTIVE")
  THEN NoNotification
  ELSE [title |-> <<agentRunId, newStatus>>, message |-> <<newStatus>>,
        style |-> "Success", shouldNotify |-> TRUE]

\* switch (newStatus) of getStatusChangeNotification
SwitchOnNewStatus(agentRunId, oldStatus, newStatus) ==
  CASE newStatus = "COMPLETE" ->
         [title |-> <<agentRunId, "Complete">>,
          message |-> <<"Your agent run has finished successfully">>,
          style |-> "Success", shouldNotify |-> TRUE]
    [] newStatus = "ERROR" ->
         [title |-> <<agentRunId, "Failed">>,
          message |-> <<"Your agent run encountered an error">>,
          style |-> "Failure", shouldNotify |-> TRUE]
    [] newStatus = "CANCELLED" ->
         [title |-> <<agentRunId, "Cancelled">>,
          message |-> <<"Your agent run was cancelled">>,
          style |-> "Failure", shouldNotify |-> TRUE]
    [] newStatus = "TIMEOUT" ->
         [title |-> <<agentRunId, "Timed Out">>,
          message |-> <<"Your agent run exceeded the time limit">>,
          style |-> "Failure", shouldNotify |-> TRUE]
    [] newStatus = "MAX_ITERATIONS_REACHED" ->
         [title |-> <<agentRunId, "Max Iterations">>,
          message |-> <<"Your agent run reached the maximum number of iterations">>,
          style |-> "Failure", shouldNotify |-> TRUE]
    [] newStatus = "OUT_OF_TOKENS" ->
         [title |-> <<agentRunId, "Out of Tokens">>,
          message |-> <<"Your agent run ran out of tokens">>,
          style |-> "Failure", shouldNotify |-> TRUE]
    [] newStatus = "ACTIVE" ->
         IF ~Falsy(oldStatus) /\ oldStatus # "ACTIVE"
         THEN [title |-> <<agentRunId, "Active">>,
               message |-> <<"Your agent run is now active">>,
               style |-> "Success", shouldNotify |-> TRUE]
         ELSE NoNotification
    [] OTHER ->
         [title |-> <<agentRunId, "Status Changed">>,
          message |-> <<"Status changed to", newStatus>>,
          style |-> "Success", shouldNotify |-> TRUE]

\* (mutant) the decision without the guard on oldStatus
GetStatusChangeNotificationNoGuard(agentRunId, oldStatus, newStatus) ==
  IF newStatus = "EVALUATION" THEN NoNotification
  ELSE SwitchOnNewStatus(agentRunId, oldStatus, newStatus)

\* (mutant) a change to FAILED is shown with the failure style
GetStatusChangeNotificationFailedFails(agentRunId, oldStatus, newStatus) ==
  IF Falsy(oldStatus) \/ oldStatus = newStatus THEN NoNotification
  ELSE IF newStatus = "EVALUATION" THEN NoNotification
  ELSE IF newStatus = "FAILED"
       THEN [SwitchOnNewStatus(agentRunId, oldStatus, newStatus)
               EXCEPT !.style = "Failure"]
  ELSE SwitchOnNewStatus(agentRunId, oldStatus, newStatus)

\* getStatusChangeNotification(agentRunId, oldStatus, newStatus)
GetStatusChangeNotification(agentRunId, oldStatus, newStatus) ==
  IF Falsy(oldStatus) \/ oldStatus = newStatus THEN NoNotification
  ELSE IF newStatus = "EVALUATION" THEN NoNotification
  ELSE SwitchOnNewStatus(agentRunId, oldStatus, newStatus)

NoDecision ==
  [agentRunId |-> 0, oldStatus |-> Null, newStatus |-> Null,
   result |-> NoNotification, shown |-> "never"]

\* what the external notifier can do with a notification: show the toast,
\* fail the toast and show the HUD, or fail both (both failures are swallowed)
ShowOutcomes == {"toast", "hud", "none"}

\* the record of one notifyStatusChange(change) whose toast went as outcome
Notification(change, outcome) ==
  LET result == GetStatusChangeNotification(change.agentRunId, change.oldStatus,
                                            change.newStatus)
  IN [agentRunId |-> change.agentRunId, oldStatus |-> change.oldStatus,
      newStatus |-> change.newStatus, result |-> result,
      shown |-> IF result.shouldNotify THEN outcome ELSE "skipped"]

\* notifyStatusChange(change) called on its own
NotifyStatusChange(change, outcome) ==
  /\ decision' = Notification(change, outcome)
  /\ UNCHANGED <<corrupt, clockVars, remoteVars, trackVars, cacheVars, pass, npass,
                 syncVars, nops, histVars, termAt, sched, schedHist, polling>>

(***************************************************************************)
(* The monitoring pass: BackgroundMonitoringService.checkForStatusChanges  *)
(* and MonitorAgentRuns, which run the same steps                          *)
(***************************************************************************)
IdlePass == [pc |-> "idle", orgs |-> <<>>, org |-> 0, runs |-> <<>>, i |-> 0,
             changes |-> <<>>, j |-> 0, fetched |-> <<>>]

FetchFailed == "FETCH_FAILED"

Quiescent == \A p \in PassIds : pass[p].pc = "idle"

\* getTrackedOrganizations; no tracked organization ends the pass at once
PassBegin(p) ==
  /\ pass[p].pc = "idle"
  /\ npass < MaxPasses
  /\ npass' = npass + 1
  /\ pass' = [pass EXCEPT ![p] =
       IF trackedOrgs = <<>> THEN IdlePass
       ELSE [IdlePass EXCEPT !.pc = "org", !.orgs = trackedOrgs]]
  /\ UNCHANGED <<corrupt, serviceVars, clockVars, remoteVars, trackVars, cacheVars, syncVars,
                 nops, histVars, termAt>>

\* cache.checkForStatusChanges(org) up to its loop: getTrackedRuns; with no
\* tracked run it returns [] and the pass goes on to the cleanup
PassCheck(p) ==
  /\ pass[p].pc = "org"
  /\ LET o == Head(pass[p].orgs)
         trackedRuns == GetTrackedRuns(tracked, keyIndex, o)
     IN pass' = [pass EXCEPT ![p] =
          [@ EXCEPT !.org = o, !.runs = trackedRuns, !.i = 1,
                    !.changes = <<>>, !.j = 1, !.fetched = <<>>,
                    !.pc = IF trackedRuns = <<>> THEN "cleanup" ELSE "detect"]]
  /\ UNCHANGED <<corrupt, serviceVars, clockVars, remoteVars, trackVars, cacheVars, npass,
                 syncVars, nops, histVars, termAt>>

\* (mutant) a failed fetch ends the loop
AfterRunAbortOnFailure(ps, changes, outcome) ==
  [ps EXCEPT !.changes = changes,
             !.fetched = Append(ps.fetched, <<ps.runs[ps.i].id, outcome>>),
             !.i = ps.i + 1,
             !.pc = IF ps.i < Len(ps.runs) /\ outcome # "FETCH_FAILED" THEN "detect"
                    ELSE IF changes # <<>> THEN "notify" ELSE "cleanup"]

\* the pass record after the loop body has run for runs[i]
AfterRun(ps, changes, outcome) ==
  [ps EXCEPT !.changes = changes,
             !.fetched = Append(ps.fetched, <<ps.runs[ps.i].id, outcome>>),
             !.i = ps.i + 1,
             !.pc = IF ps.i < Len(ps.runs) THEN "detect"
                    ELSE IF changes # <<>> THEN "notify" ELSE "cleanup"]

\* (mutant) a null lastKnownStatus is reported as UNKNOWN too
MakeChangeOldUnknown(o, tr, currentStatus, t, ver, passNo) ==
  [agentRunId |-> tr.id, organizationId |-> o,
   oldStatus |-> IF tr.lastKnownStatus = Null THEN "UNKNOWN" ELSE tr.lastKnownStatus,
   newStatus |-> IF currentStatus = Null THEN "UNKNOWN" ELSE currentStatus,
   timestamp |-> t, ver |-> ver, passNo |-> passNo]

\* the AgentRunStatusChange built for a tracked run and the fetched run
\* (ver and passNo record which remote state was fetched, and in which pass)
MakeChange(o, tr, currentStatus, t, ver, passNo) ==
  [agentRunId |-> tr.id, organizationId |-> o,
   oldStatus |-> tr.lastKnownStatus, newStatus |-> NewStatusOf(currentStatus),
   timestamp |-> t, ver |-> ver, passNo |-> passNo]

\* one iteration of the loop of checkForStatusChanges: fetch the run; on a
\* failure skip it; on a changed status push the change and update the registry
PassFetch(p) ==
  /\ pass[p].pc = "detect"
  /\ LET ps == pass[p]
         o == ps.org
         tr == ps.runs[ps.i]
         k == <<o, tr.id>>
         cur == remote[k].status
     IN \/ /\ pass' = [pass EXCEPT ![p] = AfterRun(ps, ps.changes, FetchFailed)]
           /\ UNCHANGED <<tracked, emitted, termAt>>
        \/ /\ StatusChanged(cur, tr.lastKnownStatus)
           /\ LET change == MakeChange(o, tr, cur, now, remote[k].ver, npass)
              IN /\ pass' = [pass EXCEPT ![p] =
                       AfterRun(ps, Append(ps.changes, change), cur)]
                 /\ emitted' = Append(emitted, change)
           /\ tracked' = UpdateTrackedRunStatus(tracked, o, tr.id, cur, now)
           /\ termAt' = IF k \in DOMAIN tracked
                        THEN TermAtAfter(termAt, tracked, k, cur, now) ELSE termAt
        \/ /\ ~StatusChanged(cur, tr.lastKnownStatus)
           /\ pass' = [pass EXCEPT ![p] = AfterRun(ps, ps.changes, cur)]
           /\ UNCHANGED <<tracked, emitted, termAt>>
  /\ UNCHANGED <<corrupt, serviceVars, clockVars, remoteVars, keyIndex, trackedOrgs, cacheVars,
                 npass, syncVars, nops, notified, removed>>

\* (mutant) only the first change of an organization is notified
PassNotifyFirstOnly(p) ==
  /\ pass[p].pc = "notify"
  /\ LET ps == pass[p]
     IN /\ notified' = Append(notified, ps.changes[ps.j])
        /\ \E outcome \in ShowOutcomes :
             decision' = Notification(ps.changes[ps.j], outcome)
        /\ pass' = [pass EXCEPT ![p] = [ps EXCEPT !.j = ps.j + 1, !.pc = "cleanup"]]
  /\ UNCHANGED <<corrupt, clockVars, remoteVars, trackVars, cacheVars, npass,
                 syncVars, nops, emitted, removed, termAt, sched, schedHist,
                 polling>>

\* (mutant) a notification that neither the toast nor the HUD could show
\* throws: the inner catch goes on with the next organization
PassNotifyThrowOnFailure(p) ==
  /\ pass[p].pc = "notify"
  /\ LET ps == pass[p]
     IN /\ notified' = Append(notified, ps.changes[ps.j])
        /\ \E outcome \in ShowOutcomes :
             /\ decision' = Notification(ps.changes[ps.j], outcome)
             /\ pass' = [pass EXCEPT ![p] =
                  IF decision'.shown = "none"
                  THEN IF Len(ps.orgs) > 1
                       THEN [ps EXCEPT !.pc = "org", !.orgs = Tail(ps.orgs)]
                       ELSE [ps EXCEPT !.pc = "idle", !.orgs = <<>>]
                  ELSE [ps EXCEPT !.j = ps.j + 1,
                                  !.pc = IF ps.j < Len(ps.changes)
                                         THEN "notify" ELSE "cleanup"]]
  /\ UNCHANGED <<corrupt, clockVars, remoteVars, trackVars, cacheVars, npass,
                 syncVars, nops, emitted, removed, termAt, sched, schedHist,
                 polling>>

\* notificationManager.notifyStatusChange(change) for the next change
PassNotify(p) ==
  /\ pass[p].pc = "notify"
  /\ LET ps == pass[p]
     IN /\ notified' = Append(notified, ps.changes[ps.j])
        /\ \E outcome \in ShowOutcomes :
             decision' = Notification(ps.changes[ps.j], outcome)
        /\ pass' = [pass EXCEPT ![p] =
             [ps EXCEPT !.j = ps.j + 1,
                        !.pc = IF ps.j < Len(ps.changes) THEN "notify" ELSE "cleanup"]]
  /\ UNCHANGED <<corrupt, clockVars, remoteVars, trackVars, cacheVars, npass,
                 syncVars, nops, emitted, removed, termAt, sched, schedHist,
                 polling>>

\* the keys cleanupCompletedRuns(org) removes at time t
CleanupKeys(tk, idx, o, t) ==
  LET trackedRuns == GetTrackedRuns(tk, idx, o)
  IN {<<o, trackedRuns[i].id>> : i \in {n \in 1..Len(trackedRuns) :
                                          ShouldCleanup(trackedRuns[n], t)}}

\* the registry after cleanupCompletedRuns(org) at time t
CleanupCompletedRuns(tk, idx, o, t) ==
  [k \in DOMAIN tk \ CleanupKeys(tk, idx, o, t) |-> tk[k]]

\* what the removal of key k at time t adds to the record of removals
\* (call: how many user operations and passes had begun)
Removal(k, t) ==
  [key |-> k, at |-> t, call |-> nops + npass,
   status |-> tracked[k].data.lastKnownStatus,
   addedAt |-> tracked[k].data.addedAt,
   termAt |-> IF k \in DOMAIN termAt THEN termAt[k] ELSE -1]

\* what cleanupCompletedRuns(o) does at the current time
CleanupEffect(o) ==
  LET gone == CleanupKeys(tracked, keyIndex, o, now)
  IN /\ tracked' = CleanupCompletedRuns(tracked, keyIndex, o, now)
     /\ removed' = removed \cup {Removal(k, now) : k \in gone}
     /\ termAt' = [k \in DOMAIN termAt \ gone |-> termAt[k]]

\* a call of cache.cleanupCompletedRuns(o) on its own
Cleanup(o) ==
  /\ nops' = nops + 1
  /\ CleanupEffect(o)
  /\ UNCHANGED <<corrupt, serviceVars, clockVars, remoteVars, keyIndex, trackedOrgs, cacheVars, pass,
                 npass, syncVars, emitted, notified>>

\* cache.cleanupCompletedRuns(org), then the next organization of the pass
PassCleanup(p) ==
  /\ pass[p].pc = "cleanup"
  /\ CleanupEffect(pass[p].org)
  /\ LET ps == pass[p]
     IN /\ pass' = [pass EXCEPT ![p] =
             IF Len(ps.orgs) > 1
             THEN [ps EXCEPT !.pc = "org", !.orgs = Tail(ps.orgs)]
             ELSE [ps EXCEPT !.pc = "idle", !.orgs = <<>>]]
  /\ UNCHANGED <<corrupt, serviceVars, clockVars, remoteVars, keyIndex, trackedOrgs, cacheVars,
                 npass, syncVars, nops, emitted, notified>>

PassStep(p) ==
  \/ PassBegin(p)
  \/ PassCheck(p)
  \/ PassFetch(p)
  \/ PassNotify(p)
  \/ PassCleanup(p)

(***************************************************************************)
(* Sync engine: syncAgentRuns                                              *)
(***************************************************************************)
NoError == "none"

\* the SyncState setSyncStatus stores
MakeSyncState(status, t, err) == [status |-> status, lastSync |-> t, error |-> err]

\* setSyncStatus(organizationId, status, error) at time t
SetSyncStatus(ss, o, status, t, err) == Put(ss, o, MakeSyncState(status, t, err))

\* getSyncStatus(organizationId): nothing stored, or a string JSON.parse
\* rejects, gives { status: IDLE }
GetSyncStatus(ss, o) ==
  IF o \in DOMAIN ss /\ Parses("sync", o, 0) THEN ss[o]
  ELSE [status |-> "idle"]

IdleSync == [pc |-> "idle", org |-> 0, cachedRuns |-> <<>>, i |-> 0,
             updatedRuns |-> <<>>, outcomes |-> <<>>, error |-> NoError,
             result |-> [status |-> "none", error |-> NoError]]

\* syncAgentRuns up to its loop: setSyncStatus(SYNCING), getAPIClient(),
\* getAgentRuns.  outcome "store": LocalStorage.setItem throws in
\* setSyncStatus; "client": getAPIClient throws; "ok": neither
SyncStart(o, outcome) ==
  /\ sync.pc \in {"idle", "done"}
  /\ nsync' = nsync + 1
  /\ \/ /\ outcome = "store"
        /\ sync' = [IdleSync EXCEPT !.pc = "catch", !.org = o, !.error = "store"]
        /\ UNCHANGED syncStatus
     \/ /\ outcome = "client"
        /\ syncStatus' = SetSyncStatus(syncStatus, o, "syncing", now, NoError)
        /\ sync' = [IdleSync EXCEPT !.pc = "catch", !.org = o, !.error = "client"]
     \/ /\ outcome = "ok"
        /\ syncStatus' = SetSyncStatus(syncStatus, o, "syncing", now, NoError)
        /\ LET cachedRuns == GetAgentRuns(runCache, o, now)
           IN sync' = [IdleSync EXCEPT !.org = o, !.cachedRuns = cachedRuns, !.i = 1,
                         !.pc = IF cachedRuns = <<>> THEN "write" ELSE "fetch"]
  /\ UNCHANGED <<corrupt, serviceVars, clockVars, remoteVars, trackVars, cacheVars, pass, npass, view,
                 nops, histVars, termAt>>

\* (mutant) a run whose fetch failed is left out of the set written back
DropOnFailure(updatedRuns, cachedRun) == updatedRuns

\* (mutant) a run whose fetch failed is pushed twice
KeepTwiceOnFailure(updatedRuns, cachedRun) ==
  Append(Append(updatedRuns, cachedRun), cachedRun)

\* the catch of the loop: updatedRuns.push(cachedRun)
KeepOnFailure(updatedRuns, cachedRun) == Append(updatedRuns, cachedRun)

\* one iteration of the loop of syncAgentRuns: fetch the cached run; push the
\* fetched run, or the cached one when the fetch fails
SyncFetch(ok, s) ==
  /\ sync.pc = "fetch"
  /\ LET cachedRun == sync.cachedRuns[sync.i]
         rem == FirstFetch(remote, sync.org, cachedRun.id, s)
     IN /\ remote' = IF ok THEN rem ELSE remote
        /\ sync' = [sync EXCEPT
             !.updatedRuns = IF ok
                             THEN Append(@, RemoteRun(rem, sync.org, cachedRun.id))
                             ELSE KeepOnFailure(@, cachedRun),
             !.outcomes = Append(@, ok),
             !.i = @ + 1,
             !.pc = IF sync.i < Len(sync.cachedRuns) THEN "fetch" ELSE "write"]
  /\ UNCHANGED <<corrupt, serviceVars, clockVars, rver, trackVars, cacheVars, pass, npass, syncStatus,
                 nsync, view, nops, histVars, termAt>>

\* the end of syncAgentRuns: setAgentRuns(updatedRuns), setSyncStatus(SUCCESS),
\* return.  outcome "store": LocalStorage.setItem throws in saveMetadata, after
\* the cache blob is written
SyncFinish(outcome) ==
  /\ sync.pc = "write"
  /\ runCache' = SetAgentRuns(runCache, sync.org, sync.updatedRuns, now)
  /\ metadata' = Put(metadata, sync.org, now)
  /\ \/ /\ outcome = "ok"
        /\ syncStatus' = SetSyncStatus(syncStatus, sync.org, "success", now, NoError)
        /\ sync' = [sync EXCEPT !.pc = "done",
                                !.result = [status |-> "success", error |-> NoError]]
     \/ /\ outcome = "store"
        /\ sync' = [sync EXCEPT !.pc = "catch", !.error = "store"]
        /\ UNCHANGED syncStatus
  /\ UNCHANGED <<corrupt, serviceVars, clockVars, remoteVars, trackVars, pass, npass, nsync, view, nops,
                 histVars, termAt>>

\* the catch of syncAgentRuns: setSyncStatus(ERROR, message), return the
\* error state.  outcome "store": LocalStorage.setItem throws in that
\* setSyncStatus, and the exception leaves syncAgentRuns
SyncCatch(outcome) ==
  /\ sync.pc = "catch"
  /\ \/ /\ outcome = "ok"
        /\ syncStatus' = SetSyncStatus(syncStatus, sync.org, "error", now, sync.error)
        /\ sync' = [sync EXCEPT !.pc = "done",
                                !.result = [status |-> "error", error |-> sync.error]]
     \/ /\ outcome = "store"
        /\ sync' = [sync EXCEPT !.pc = "done",
                                !.result = [status |-> "thrown", error |-> "store"]]
        /\ UNCHANGED syncStatus
  /\ UNCHANGED <<corrupt, serviceVars, clockVars, remoteVars, trackVars, cacheVars, pass, npass, nsync,
                 view, nops, histVars, termAt>>

NoView == [org |-> 0, at |-> -1, runs |-> <<>>, syncStatus |-> "idle"]

\* useCachedAgentRuns.loadCachedData: agentRuns := cache.getAgentRuns(org),
\* syncStatus := cache.getSyncStatus(org).status
LoadCachedData(o) ==
  /\ view' = [org |-> o, at |-> now, runs |-> GetAgentRuns(runCache, o, now),
              syncStatus |-> GetSyncStatus(syncStatus, o).status]
  /\ UNCHANGED <<corrupt, serviceVars, clockVars, remoteVars, trackVars, cacheVars, pass, npass,
                 syncStatus, sync, nsync, nops, histVars, termAt>>

(***************************************************************************)
(* Spec: one organization, the scheduler with one pass in flight at a time; *)
(* the user acts between passes; the remote system and the clock move at   *)
(* any time                                                                *)
(***************************************************************************)
EmptyFn == [x \in {} |-> 0]

(***************************************************************************)
(* The scheduler: BackgroundMonitoringService (utils/backgroundMonitoring)  *)
(* sched.timers holds the intervals set and not cleared: id -> [due, gen];  *)
(* sched.starting holds the start() calls suspended at                      *)
(* `await notificationManager.initialize()`, oldest first (the generation   *)
(* each belongs to).  intervalId 0 is null.                                 *)
(***************************************************************************)
IdleSched ==
  [isRunning |-> FALSE, intervalId |-> 0, timers |-> EmptyFn, ntimers |-> 0,
   starting |-> <<>>, isInitialized |-> FALSE]

\* the calls made so far: passes begun (began), start() and stop() calls,
\* start() calls that went past the isRunning test (gens), passes and
\* organizations that ended in a catch block (failed); stopped: stop() was
\* called and start() was not called since; clean: the last start() that
\* went past the test found nothing running and stop() was not called since
NoSchedHist ==
  [began |-> <<>>, starts |-> 0, stops |-> 0, gens |-> 0, failed |-> 0,
   stopped |-> FALSE, clean |-> FALSE, startAt |-> 0]

NoPolling == [org |-> 0, at |-> 0, runs |-> <<>>, i |-> 1, statusChanged |-> FALSE]

InitService ==
  /\ decision = NoDecision
  /\ sched = IdleSched
  /\ schedHist = NoSchedHist
  /\ polling = NoPolling
  /\ corrupt = {}

\* a pass begun at the current time by start() or by an interval tick
Begun(by, gen) ==
  [at |-> now, by |-> by, gen |-> gen, afterStop |-> schedHist.stopped,
   failedBefore |-> schedHist.failed]

\* start() up to `await notificationManager.initialize()`; initialize() has
\* run its body when start() suspends
StartCall ==
  /\ IF sched.isRunning
     THEN /\ sched' = sched
          /\ schedHist' = [schedHist EXCEPT !.starts = @ + 1, !.stopped = FALSE]
     ELSE /\ sched' = [sched EXCEPT !.isRunning = TRUE, !.isInitialized = TRUE,
                                    !.starting = Append(@, schedHist.gens + 1)]
          /\ schedHist' =
               [schedHist EXCEPT !.starts = @ + 1, !.stopped = FALSE,
                                 !.gens = @ + 1, !.startAt = now,
                                 !.clean = /\ sched.timers = EmptyFn
                                           /\ sched.starting = <<>>]
  /\ UNCHANGED <<corrupt, clockVars, remoteVars, trackVars, cacheVars, pass, npass,
                 syncVars, nops, histVars, termAt, decision, polling>>

\* start() after the await: checkForStatusChanges() is called (it runs up to
\* its first await, of getTrackedOrganizations, in pass slot p) and the
\* interval is set
StartResume(p) ==
  /\ sched.starting # <<>>
  /\ pass[p].pc = "idle"
  /\ LET gen == Head(sched.starting)
         id == sched.ntimers + 1
     IN /\ sched' = [sched EXCEPT
               !.starting = Tail(@), !.ntimers = id, !.intervalId = id,
               !.timers = Put(@, id, [due |-> now + MONITORING_INTERVAL,
                                      gen |-> gen])]
        /\ schedHist' = [schedHist EXCEPT !.began = Append(@, Begun("start", gen))]
  /\ pass' = [pass EXCEPT ![p] = [IdlePass EXCEPT !.pc = "begin"]]
  /\ npass' = npass + 1
  /\ UNCHANGED <<corrupt, clockVars, remoteVars, trackVars, cacheVars, syncVars, nops,
                 histVars, termAt, decision, polling>>

\* (mutant) once a pass has failed, the callback starts no pass
IntervalFireUnlessFailed(id, p) ==
  /\ id \in DOMAIN sched.timers
  /\ sched.timers[id].due <= now
  /\ pass[p].pc = "idle"
  /\ sched' = [sched EXCEPT !.timers[id].due = @ + MONITORING_INTERVAL]
  /\ schedHist' = IF schedHist.failed > 0 THEN schedHist
                  ELSE [schedHist EXCEPT
                          !.began = Append(@, Begun("tick", sched.timers[id].gen))]
  /\ pass' = IF schedHist.failed > 0 THEN pass
             ELSE [pass EXCEPT ![p] = [IdlePass EXCEPT !.pc = "begin"]]
  /\ npass' = npass + 1
  /\ UNCHANGED <<corrupt, clockVars, remoteVars, trackVars, cacheVars, syncVars, nops,
                 histVars, termAt, decision, polling>>

\* the callback of setInterval: interval id is due; checkForStatusChanges()
\* is called in pass slot p
IntervalFire(id, p) ==
  /\ id \in DOMAIN sched.timers
  /\ sched.timers[id].due <= now
  /\ pass[p].pc = "idle"
  /\ sched' = [sched EXCEPT !.timers[id].due = @ + MONITORING_INTERVAL]
  /\ schedHist' = [schedHist EXCEPT
       !.began = Append(@, Begun("tick", sched.timers[id].gen))]
  /\ pass' = [pass EXCEPT ![p] = [IdlePass EXCEPT !.pc = "begin"]]
  /\ npass' = npass + 1
  /\ UNCHANGED <<corrupt, clockVars, remoteVars, trackVars, cacheVars, syncVars, nops,
                 histVars, termAt, decision, polling>>

\* stop()
Stop ==
  /\ sched' = [sched EXCEPT
       !.timers = IF sched.intervalId # 0 THEN Del(@, sched.intervalId) ELSE @,
       !.intervalId = 0, !.isRunning = FALSE]
  /\ schedHist' = [schedHist EXCEPT !.stops = @ + 1, !.stopped = TRUE,
                                    !.clean = FALSE]
  /\ UNCHANGED <<corrupt, clockVars, remoteVars, trackVars, cacheVars, pass, npass,
                 syncVars, nops, histVars, termAt, decision, polling>>

\* the pass of slot p resumes with the list getTrackedOrganizations returned
PassOrganizations(p) ==
  /\ pass[p].pc = "begin"
  /\ pass' = [pass EXCEPT ![p] =
       IF trackedOrgs = <<>> THEN IdlePass
       ELSE [IdlePass EXCEPT !.pc = "org", !.orgs = trackedOrgs]]
  /\ UNCHANGED <<corrupt, serviceVars, clockVars, remoteVars, trackVars, cacheVars,
                 npass, syncVars, nops, histVars, termAt>>

\* getTrackedOrganizations throws (the store cannot be read): the outer
\* catch logs and the pass is over
PassOrganizationsThrow(p) ==
  /\ pass[p].pc = "begin"
  /\ pass' = [pass EXCEPT ![p] = IdlePass]
  /\ schedHist' = [schedHist EXCEPT !.failed = @ + 1]
  /\ UNCHANGED <<corrupt, clockVars, remoteVars, trackVars, cacheVars, npass, syncVars,
                 nops, histVars, termAt, decision, sched, polling>>

\* (mutant) an exception for one organization ends the pass
AbortPass(ps) == [ps EXCEPT !.pc = "idle", !.orgs = <<>>]

\* the inner catch: the for loop goes on with the next organization
NextOrganization(ps) ==
  IF Len(ps.orgs) > 1
  THEN [ps EXCEPT !.pc = "org", !.orgs = Tail(ps.orgs)]
  ELSE [ps EXCEPT !.pc = "idle", !.orgs = <<>>]

\* cache.checkForStatusChanges(org) throws before its loop (getTrackedRuns
\* cannot read the store, or getAPIClient has no credentials): nothing is
\* notified or cleaned up for this organization
DetectorThrow(p) ==
  /\ pass[p].pc = "org"
  /\ LET ps == pass[p]
     IN pass' = [pass EXCEPT ![p] =
          NextOrganization([ps EXCEPT !.org = Head(ps.orgs), !.runs = <<>>,
                                      !.i = 1, !.changes = <<>>, !.j = 1,
                                      !.fetched = <<>>])]
  /\ schedHist' = [schedHist EXCEPT !.failed = @ + 1]
  /\ UNCHANGED <<corrupt, clockVars, remoteVars, trackVars, cacheVars, npass, syncVars,
                 nops, histVars, termAt, decision, sched, polling>>

\* cache.cleanupCompletedRuns(org) throws (getTrackedRuns cannot read the
\* store): nothing is removed
CleanupThrow(p) ==
  /\ pass[p].pc = "cleanup"
  /\ pass' = [pass EXCEPT ![p] = NextOrganization(@)]
  /\ schedHist' = [schedHist EXCEPT !.failed = @ + 1]
  /\ UNCHANGED <<corrupt, clockVars, remoteVars, trackVars, cacheVars, npass, syncVars,
                 nops, histVars, termAt, decision, sched, polling>>

Init ==
  /\ now = 0
  /\ ticks = 0
  /\ remote = EmptyFn
  /\ rver = 0
  /\ tracked = EmptyFn
  /\ keyIndex = EmptyFn
  /\ trackedOrgs = <<>>
  /\ runCache = EmptyFn
  /\ metadata = EmptyFn
  /\ syncStatus = EmptyFn
  /\ pass = [p \in PassIds |-> IdlePass]
  /\ npass = 0
  /\ sync = IdleSync
  /\ nsync = 0
  /\ view = NoView
  /\ nops = 0
  /\ emitted = <<>>
  /\ notified = <<>>
  /\ removed = {}
  /\ InitService
  /\ termAt = EmptyFn

Environment ==
  \/ (ticks < MaxTicks /\ \E d \in Jumps : Tick(d))
  \/ \E r \in RunIds, s \in RemoteStatuses : RemoteChange(1, r, s)

UserStep == \E r \in RunIds, s \in RemoteStatuses : TrackRun(1, r, s)

Next ==
  \/ Environment
  \/ (Quiescent /\ UserStep)
  \/ PassStep(1)

Spec == Init /\ [][Next]_vars

(***************************************************************************)
(* Observations on a pass                                                  *)
(***************************************************************************)
\* checkForStatusChanges of pass p has returned (its loop has run to the end)
DetectDone(p) == pass[p].pc \in {"notify", "cleanup"} /\ pass[p].runs # <<>>

\* the changes a pass holds for run r
ChangesFor(ps, r) == SelectSeq(ps.changes, LAMBDA c : c.agentRunId = r)

\* the snapshot getTrackedRuns gave the pass for run r
SnapshotOf(ps, r) == ps.runs[CHOOSE i \in 1..Len(ps.runs) : ps.runs[i].id = r]

\* position of run r in the key index of organization o
KeyPos(o, r) == CHOOSE i \in 1..Len(keyIndex[o]) : keyIndex[o][i] = r

(***************************************************************************)
(* C1: across sequential passes over one organization, a run whose remote  *)
(* status has not changed since a pass emitted a change for it emits       *)
(* nothing again: no two emitted changes of one run stem from the same     *)
(* remote state (ver counts the remote's status changes).                  *)
(***************************************************************************)
C1_NoRepeatedEmission ==
  \A i \in 1..Len(emitted) : \A j \in 1..Len(emitted) :
    (i < j /\ emitted[i].agentRunId = emitted[j].agentRunId
           /\ emitted[i].organizationId = emitted[j].organizationId)
      => emitted[i].ver # emitted[j].ver

\* a first pass emitted a change for a run, the remote kept that status, and
\* the second pass has fetched the run again and emitted nothing
C1_Witness ==
  /\ npass = 2
  /\ DetectDone(1)
  /\ pass[1].changes = <<>>
  /\ \E i \in 1..Len(emitted) : \E n \in 1..Len(pass[1].fetched) :
       /\ emitted[i].passNo = 1
       /\ pass[1].fetched[n][1] = emitted[i].agentRunId
       /\ pass[1].fetched[n][2] # FetchFailed
       /\ remote[<<1, emitted[i].agentRunId>>].ver = emitted[i].ver

(***************************************************************************)
(* C3 (as amended): when checkForStatusChanges returns, every run whose    *)
(* fetch succeeded has exactly one change {old: lastKnownStatus, new: the  *)
(* fetched status, or "UNKNOWN" when the fetched status is null} if the    *)
(* fetched status differs from lastKnownStatus and none otherwise, and the *)
(* registry entry holds the fetched status.                                *)
(***************************************************************************)
C3_DetectorEmitsIffChanged ==
  \A p \in PassIds : DetectDone(p) =>
    \A i \in 1..Len(pass[p].fetched) :
      LET ps == pass[p]
          r == ps.fetched[i][1]
          st == ps.fetched[i][2]
          tr == ps.runs[i]
          cs == ChangesFor(ps, r)
      IN st # FetchFailed =>
           /\ st # tr.lastKnownStatus =>
                /\ Len(cs) = 1
                /\ cs[1].oldStatus = tr.lastKnownStatus
                /\ cs[1].newStatus = NewStatusOf(st)
           /\ st = tr.lastKnownStatus => cs = <<>>
           /\ <<ps.org, r>> \in DOMAIN tracked
           /\ tracked[<<ps.org, r>>].data.lastKnownStatus = st

\* C3 as stated: the new status of the change is the fetched status
C3_Original ==
  \A p \in PassIds : DetectDone(p) =>
    \A i \in 1..Len(pass[p].fetched) :
      LET ps == pass[p]
          r == ps.fetched[i][1]
          st == ps.fetched[i][2]
          tr == ps.runs[i]
          cs == ChangesFor(ps, r)
      IN st # FetchFailed =>
           /\ st # tr.lastKnownStatus =>
                /\ Len(cs) = 1
                /\ cs[1].oldStatus = tr.lastKnownStatus
                /\ cs[1].newStatus = st
           /\ st = tr.lastKnownStatus => cs = <<>>
           /\ <<ps.org, r>> \in DOMAIN tracked
           /\ tracked[<<ps.org, r>>].data.lastKnownStatus = st

\* a pass over two runs: one went ACTIVE -> COMPLETE and has its change and
\* its registry update, the other is unchanged and has no change
C3_Witness ==
  /\ DetectDone(1)
  /\ Len(pass[1].fetched) = 2
  /\ \E i, j \in 1..2 :
       /\ pass[1].runs[i].lastKnownStatus = "ACTIVE"
       /\ pass[1].fetched[i][2] = "COMPLETE"
       /\ Len(ChangesFor(pass[1], pass[1].runs[i].id)) = 1
       /\ tracked[<<1, pass[1].runs[i].id>>].data.lastKnownStatus = "COMPLETE"
       /\ pass[1].fetched[j][2] = pass[1].runs[j].lastKnownStatus
       /\ ChangesFor(pass[1], pass[1].runs[j].id) = <<>>

(***************************************************************************)
(* C7: when checkForStatusChanges returns, every run of the snapshot has   *)
(* been fetched, in order; a run whose fetch failed has no change and its  *)
(* registry entry keeps the lastKnownStatus it had.                        *)
(***************************************************************************)
C7_FailedFetchSkipsOnlyThatRun ==
  \A p \in PassIds : DetectDone(p) =>
    LET ps == pass[p]
    IN /\ Len(ps.fetched) = Len(ps.runs)
       /\ \A i \in 1..Len(ps.fetched) :
            /\ ps.fetched[i][1] = ps.runs[i].id
            /\ ps.fetched[i][2] = FetchFailed =>
                 /\ ChangesFor(ps, ps.runs[i].id) = <<>>
                 /\ tracked[<<ps.org, ps.runs[i].id>>].data.lastKnownStatus
                      = ps.runs[i].lastKnownStatus

\* the fetch of the first run failed and the second run, fetched after it,
\* has its change
C7_Witness ==
  /\ DetectDone(1)
  /\ Len(pass[1].fetched) = 2
  /\ pass[1].fetched[1][2] = FetchFailed
  /\ remote[<<1, pass[1].runs[1].id>>].status # pass[1].runs[1].lastKnownStatus
  /\ pass[1].fetched[2][2] # FetchFailed
  /\ Len(ChangesFor(pass[1], pass[1].runs[2].id)) = 1

(***************************************************************************)
(* C8 (as amended): the changes a pass returns are in the order of         *)
(* getTrackedRuns: most recently added run first (addedAt descending), and *)
(* runs added at the same millisecond in key-index order.                  *)
(***************************************************************************)
C8_ChangesNewestAddedFirst ==
  \A p \in PassIds : DetectDone(p) =>
    \A m \in 1..Len(pass[p].changes) : \A n \in 1..Len(pass[p].changes) :
      m < n =>
        LET ps == pass[p]
            x == SnapshotOf(ps, ps.changes[m].agentRunId)
            y == SnapshotOf(ps, ps.changes[n].agentRunId)
        IN \/ x.addedAt > y.addedAt
           \/ /\ x.addedAt = y.addedAt
              /\ KeyPos(ps.org, x.id) < KeyPos(ps.org, y.id)

\* C8 as stated: a run added earlier has its change earlier
C8_Original ==
  \A p \in PassIds : DetectDone(p) =>
    \A m \in 1..Len(pass[p].changes) : \A n \in 1..Len(pass[p].changes) :
      LET ps == pass[p]
          x == SnapshotOf(ps, ps.changes[m].agentRunId)
          y == SnapshotOf(ps, ps.changes[n].agentRunId)
      IN x.addedAt < y.addedAt => m < n

\* two runs added at different times both changed in one pass
C8_Witness ==
  /\ DetectDone(1)
  /\ Len(pass[1].changes) = 2
  /\ SnapshotOf(pass[1], pass[1].changes[1].agentRunId).addedAt
       > SnapshotOf(pass[1], pass[1].changes[2].agentRunId).addedAt

(***************************************************************************)
(* SpecConc: passes overlap.  setInterval starts a pass every              *)
(* MONITORING_INTERVAL whether or not the previous one has returned, and   *)
(* the MonitorAgentRuns command runs the same pass on its own; the steps   *)
(* of two passes, and the user's operations, interleave at their awaits.   *)
(***************************************************************************)
NextConc ==
  \/ \E r \in RunIds, s \in RemoteStatuses : RemoteChange(1, r, s)
  \/ \E r \in RunIds, s \in RemoteStatuses : TrackRun(1, r, s)
  \/ \E p \in PassIds : PassStep(p)

SpecConc == Init /\ [][NextConc]_vars

(***************************************************************************)
(* C2: each remote status transition of a tracked run is handed to the     *)
(* notifier at most once, also when passes overlap: no two notified        *)
(* changes of one run have the same old status, new status and remote      *)
(* state.                                                                  *)
(***************************************************************************)
C2_NotifiedAtMostOnce ==
  \A i \in 1..Len(notified) : \A j \in 1..Len(notified) :
    (i < j /\ notified[i].agentRunId = notified[j].agentRunId
           /\ notified[i].organizationId = notified[j].organizationId
           /\ notified[i].oldStatus = notified[j].oldStatus
           /\ notified[i].newStatus = notified[j].newStatus)
      => notified[i].ver # notified[j].ver

(***************************************************************************)
(* SpecSync: the run cache of one organization and its sync engine.  The   *)
(* cache starts from a stored blob: any sequence of entries of distinct    *)
(* runs, each with an expiresAt of its own or (CacheEntry.expiresAt is     *)
(* optional) none; the remote holds every run in a status other than the   *)
(* cached one.                                                             *)
(***************************************************************************)
MaxSyncTicks == 2
MaxSyncs == 2

SyncRunIds == {1, 2, 3}
SyncJumps == {MINUTE, TTL}
InitExpiries == {NoExpiry, MINUTE, TTL}

InitEntry(r, e) ==
  [data |-> [id |-> r, status |-> "ACTIVE", created_at |-> CreatedAt(r)],
   timestamp |-> 0, expiresAt |-> e, isPolling |-> TRUE]

InitBlobs ==
  {blob \in UNION {[1..n -> {InitEntry(r, e) : r \in SyncRunIds, e \in InitExpiries}] :
                     n \in 0..Cardinality(SyncRunIds)} :
     \A i \in 1..Len(blob) : \A j \in 1..Len(blob) :
       i # j => blob[i].data.id # blob[j].data.id}

InitSync ==
  /\ now = 0
  /\ ticks = 0
  /\ remote = [k \in {1} \X SyncRunIds |-> [status |-> "COMPLETE", ver |-> 0]]
  /\ rver = 0
  /\ tracked = EmptyFn
  /\ keyIndex = EmptyFn
  /\ trackedOrgs = <<>>
  /\ runCache \in {[o \in {1} |-> blob] : blob \in InitBlobs}
  /\ metadata = EmptyFn
  /\ syncStatus = EmptyFn
  /\ pass = [p \in PassIds |-> IdlePass]
  /\ npass = 0
  /\ sync = IdleSync
  /\ nsync = 0
  /\ view = NoView
  /\ nops = 0
  /\ emitted = <<>>
  /\ notified = <<>>
  /\ removed = {}
  /\ InitService
  /\ termAt = EmptyFn

NextSync ==
  \/ (ticks < MaxSyncTicks /\ \E d \in SyncJumps : Tick(d))
  \/ (nsync < MaxSyncs /\ \E outcome \in {"ok", "store", "client"} : SyncStart(1, outcome))
  \/ \E ok \in BOOLEAN : SyncFetch(ok, "COMPLETE")
  \/ \E outcome \in {"ok", "store"} : SyncFinish(outcome)
  \/ \E outcome \in {"ok", "store"} : SyncCatch(outcome)
  \/ LoadCachedData(1)

SpecSync == InitSync /\ [][NextSync]_vars

\* the data of the entries of the organization's blob, in stored order
BlobData(o) ==
  IF o \in DOMAIN runCache THEN [i \in 1..Len(runCache[o]) |-> runCache[o][i].data]
  ELSE <<>>

(***************************************************************************)
(* C4: a sync pass in which some fetches fail and no orchestration step    *)
(* throws returns success, and the run set it writes back holds, for each  *)
(* run cached at its start, the fetched run if the fetch succeeded and the *)
(* cached run unchanged if it failed.                                      *)
(***************************************************************************)
C4_SyncKeepsCachedOnFetchFailure ==
  (sync.pc = "done" /\ sync.error = NoError) =>
    /\ sync.result.status = "success"
    /\ Len(sync.updatedRuns) = Len(sync.cachedRuns)
    /\ \A i \in 1..Len(sync.cachedRuns) :
         sync.updatedRuns[i] =
           IF sync.outcomes[i]
           THEN RemoteRun(remote, sync.org, sync.cachedRuns[i].id)
           ELSE sync.cachedRuns[i]
    /\ BlobData(sync.org) = sync.updatedRuns

\* a pass over three cached runs: the second fetch failed, the others succeeded
C4_Witness ==
  /\ sync.pc = "done"
  /\ sync.result.status = "success"
  /\ sync.outcomes = <<TRUE, FALSE, TRUE>>
  /\ BlobData(1)[1].status = "COMPLETE"
  /\ BlobData(1)[2] = sync.cachedRuns[2]
  /\ BlobData(1)[2].status = "ACTIVE"
  /\ BlobData(1)[3].status = "COMPLETE"

(***************************************************************************)
(* C5: syncAgentRuns always returns a SyncState (nothing is thrown to the  *)
(* caller); the state is error exactly when an orchestration step threw,   *)
(* whatever the per-run fetches did; and the error returned is the one     *)
(* stored as the organization's SyncState.                                 *)
(***************************************************************************)
C5_SyncReportsOrchestrationError ==
  sync.pc = "done" =>
    /\ sync.result.status \in {"success", "error"}
    /\ sync.result.status = "error" <=> sync.error # NoError
    /\ sync.result.status = "error" =>
         /\ sync.org \in DOMAIN syncStatus
         /\ syncStatus[sync.org].status = "error"
         /\ syncStatus[sync.org].error = sync.result.error

(***************************************************************************)
(* C6: a read of the organization's runs (getAgentRuns, as loadCachedData  *)
(* makes it) returns exactly the data of the entries that have no          *)
(* expiresAt or an expiresAt later than the time of the read, whatever     *)
(* their order in the blob, and leaves the blob as it was.                 *)
(***************************************************************************)
C6_ReadPost ==
  LET blob == IF 1 \in DOMAIN runCache THEN runCache[1] ELSE <<>>
      liveIdx == {i \in 1..Len(blob) :
                    blob[i].expiresAt = NoExpiry \/ blob[i].expiresAt > now}
  IN /\ runCache' = runCache
     /\ Len(view'.runs) = Cardinality(liveIdx)
     /\ \A i \in liveIdx : \E n \in 1..Len(view'.runs) : view'.runs[n] = blob[i].data
     /\ \A n \in 1..Len(view'.runs) : \E i \in liveIdx : view'.runs[n] = blob[i].data

C6_GetRunsExcludesExpired == [][LoadCachedData(1) => C6_ReadPost]_vars

\* a read made at the very time an entry expires: that entry is left out and
\* is still in the blob, and an entry without expiresAt is returned
C6_Witness ==
  /\ view.at = now
  /\ now > 0
  /\ 1 \in DOMAIN runCache
  /\ \E i, j \in 1..Len(runCache[1]) :
       /\ runCache[1][i].expiresAt = now
       /\ \A n \in 1..Len(view.runs) : view.runs[n].id # runCache[1][i].data.id
       /\ runCache[1][j].expiresAt = NoExpiry
       /\ \E n \in 1..Len(view.runs) : view.runs[n] = runCache[1][j].data

(***************************************************************************)
(* SpecCleanup: cleanupCompletedRuns on a registry of two runs of one      *)
(* organization, added at time 0, each in any status of AgentRunStatus or  *)
(* with a null status, as the clock passes the 24 hour mark.               *)
(***************************************************************************)
MaxCleanupTicks == 3
MaxCleanups == 2

CleanupJumps == {MINUTE, CLEANUP_HOURS * HOUR - MINUTE}

InitTracked(r, s) ==
  [data |-> [id |-> r, organizationId |-> 1, lastKnownStatus |-> s,
             createdAt |-> CreatedAt(r), addedAt |-> 0],
   timestamp |-> 0]

InitCleanup ==
  /\ now = 0
  /\ ticks = 0
  /\ remote = EmptyFn
  /\ rver = 0
  /\ \E s1, s2 \in AgentRunStatus \cup {Null} :
       /\ tracked = [k \in {<<1, 1>>, <<1, 2>>} |->
                       InitTracked(k[2], IF k[2] = 1 THEN s1 ELSE s2)]
       /\ termAt = [k \in {k \in {<<1, 1>>, <<1, 2>>} :
                             (IF k[2] = 1 THEN s1 ELSE s2) \in CompletedStatuses} |-> 0]
  /\ keyIndex = [o \in {1} |-> <<1, 2>>]
  /\ trackedOrgs = <<1>>
  /\ runCache = EmptyFn
  /\ metadata = EmptyFn
  /\ syncStatus = EmptyFn
  /\ pass = [p \in PassIds |-> IdlePass]
  /\ npass = 0
  /\ sync = IdleSync
  /\ nsync = 0
  /\ view = NoView
  /\ nops = 0
  /\ emitted = <<>>
  /\ notified = <<>>
  /\ removed = {}
  /\ InitService

NextCleanup ==
  \/ (ticks < MaxCleanupTicks /\ \E d \in CleanupJumps : Tick(d))
  \/ (nops < MaxCleanups /\ Cleanup(1))

SpecCleanup == InitCleanup /\ [][NextCleanup]_vars

(***************************************************************************)
(* C9: cleanupCompletedRuns(org) removes a tracked run if and only if its  *)
(* lastKnownStatus is COMPLETE, ERROR, CANCELLED, TIMEOUT,                 *)
(* MAX_ITERATIONS_REACHED or OUT_OF_TOKENS and it was added more than 24   *)
(* hours before the call.                                                  *)
(***************************************************************************)
C9_CleanupPost ==
  \A k \in DOMAIN tracked :
    (k \notin DOMAIN tracked') <=>
      /\ tracked[k].data.lastKnownStatus \in
           {"COMPLETE", "ERROR", "CANCELLED", "TIMEOUT", "MAX_ITERATIONS_REACHED",
            "OUT_OF_TOKENS"}
      /\ now - tracked[k].data.addedAt > 24 * 60 * 60 * 1000

C10_RemovedOnlyAfterTerminalFor24h ==
  \A e \in removed :
    /\ e.status \in CompletedStatuses
    /\ e.termAt >= 0
    /\ e.at - e.termAt >= 24 * 60 * 60 * 1000

(***************************************************************************)
(* SpecPolicy: notifyStatusChange called with every (run id, oldStatus,    *)
(* newStatus) and every behaviour of the external notifier                 *)
(***************************************************************************)
PolicyOldStatuses == AgentRunStatus \cup {"UNKNOWN", Null}
PolicyNewStatuses == AgentRunStatus \cup {"UNKNOWN", "QUEUED"}

NextPolicy ==
  \E id \in RunIds, old \in PolicyOldStatuses, new \in PolicyNewStatuses,
     outcome \in ShowOutcomes :
    NotifyStatusChange([agentRunId |-> id, oldStatus |-> old, newStatus |-> new],
                       outcome)

SpecPolicy == Init /\ [][NextPolicy]_vars

\* the statuses that end a run with a notification of their own
C11_Finished ==
  {"COMPLETE", "ERROR", "CANCELLED", "TIMEOUT", "MAX_ITERATIONS_REACHED",
   "OUT_OF_TOKENS"}

\* C11: the decision follows the decision table for every (oldStatus,
\* newStatus): no notification when oldStatus is null or equals newStatus,
\* none for EVALUATION, none for ACTIVE from ACTIVE, a notification for
\* ACTIVE from any other non-null status, for each finished status from a
\* different non-null status, and the generic status-changed notification
\* for any other newStatus
C11_DecisionTable ==
  decision.shown # "never" =>
    LET old == decision.oldStatus
        new == decision.newStatus
        r == decision.result
    IN /\ (old = Null \/ old = new) => ~r.shouldNotify
       /\ new = "EVALUATION" => ~r.shouldNotify
       /\ (new = "ACTIVE" /\ old = "ACTIVE") => ~r.shouldNotify
       /\ (new = "ACTIVE" /\ old \notin {Null, "ACTIVE"}) => r.shouldNotify
       /\ (new \in C11_Finished /\ old \notin {Null, new}) => r.shouldNotify
       /\ (new \notin C11_Finished \cup {"ACTIVE", "EVALUATION"}
             /\ old \notin {Null, new}) =>
            /\ r.shouldNotify
            /\ r.title = <<decision.agentRunId, "Status Changed">>
            /\ r.message = <<"Status changed to", new>>
       /\ (decision.shown = "skipped") = ~r.shouldNotify

\* decide(id, null, COMPLETE) was made and did not notify
C11_Witness ==
  /\ decision.shown = "skipped"
  /\ decision.oldStatus = Null
  /\ decision.newStatus = "COMPLETE"
  /\ ~decision.result.shouldNotify

\* C12: whenever the decision is to notify, the severity is success for
\* newStatus COMPLETE or ACTIVE and failure for ERROR, CANCELLED, TIMEOUT,
\* MAX_ITERATIONS_REACHED and OUT_OF_TOKENS, whatever oldStatus and run id
C12_Severity ==
  (decision.shown # "never" /\ decision.result.shouldNotify) =>
    /\ decision.newStatus \in {"COMPLETE", "ACTIVE"} =>
         decision.result.style = "Success"
    /\ decision.newStatus \in C11_Finished \ {"COMPLETE"} =>
         decision.result.style = "Failure"

\* a notified failure: PAUSED -> ERROR shown with the failure style
C12_Witness ==
  /\ decision.shown \in ShowOutcomes
  /\ decision.oldStatus = "PAUSED"
  /\ decision.newStatus = "ERROR"
  /\ decision.result.style = "Failure"

(***************************************************************************)
(* The scheduler's specifications.  A continuation of start() runs before   *)
(* any timer (it is a microtask), a due interval fires before the clock     *)
(* moves on, and a pass is over before the next one begins (one pass slot); *)
(* overlapping passes are SpecConc's.  The runs were tracked a day ago and  *)
(* are COMPLETE at the remote system; the store and the API client can fail *)
(***************************************************************************)
MaxSchedTicks == 2      \* clock advances
MaxStarts == 2          \* start() calls
MaxStops == 2           \* stop() calls
MaxFailures == 1        \* passes or organizations that end in a catch block

SchedJumps == {MONITORING_INTERVAL \div 3, MONITORING_INTERVAL}
SchedPassIds == {1}

\* the registry holding the runs keys, each tracked at time 0 as ACTIVE
InitRegistry(keys) ==
  /\ now = CLEANUP_HOURS * HOUR + MINUTE
  /\ ticks = 0
  /\ remote = [k \in keys |-> [status |-> "COMPLETE", ver |-> 0]]
  /\ rver = 0
  /\ tracked = [k \in keys |->
       [InitTracked(k[2], "ACTIVE") EXCEPT !.data.organizationId = k[1]]]
  /\ keyIndex = [o \in {k[1] : k \in keys} |->
       IF <<o, 2>> \in keys THEN <<1, 2>> ELSE <<1>>]
  /\ trackedOrgs = IF \E k \in keys : k[1] = 2 THEN <<1, 2>> ELSE <<1>>
  /\ runCache = EmptyFn
  /\ metadata = EmptyFn
  /\ syncStatus = EmptyFn
  /\ pass = [p \in PassIds |-> IdlePass]
  /\ npass = 0
  /\ sync = IdleSync
  /\ nsync = 0
  /\ view = NoView
  /\ nops = 0
  /\ emitted = <<>>
  /\ notified = <<>>
  /\ removed = {}
  /\ termAt = EmptyFn
  /\ InitService

\* the clock moves by d: no start() is suspended and no interval is overdue
SchedTick(d) ==
  /\ ticks < MaxSchedTicks
  /\ sched.starting = <<>>
  /\ \A id \in DOMAIN sched.timers : sched.timers[id].due >= now + d
  /\ Tick(d)

\* the steps of a pass, the failures of the store and of the client included
PassSteps(p) ==
  \/ PassOrganizations(p)
  \/ (schedHist.failed < MaxFailures /\ PassOrganizationsThrow(p))
  \/ PassCheck(p)
  \/ (schedHist.failed < MaxFailures /\ DetectorThrow(p))
  \/ PassFetch(p)
  \/ PassNotify(p)
  \/ PassCleanup(p)
  \/ (schedHist.failed < MaxFailures /\ CleanupThrow(p))

\* SpecSched: start() and stop() called at any time; one tracked run
InitSched == InitRegistry({<<1, 1>>})

NextSched ==
  \/ \E d \in SchedJumps : SchedTick(d)
  \/ (schedHist.starts < MaxStarts /\ StartCall)
  \/ (schedHist.stops < MaxStops /\ Stop)
  \/ \E p \in SchedPassIds : StartResume(p)
  \/ \E p \in SchedPassIds : \E id \in DOMAIN sched.timers : IntervalFire(id, p)
  \/ \E p \in SchedPassIds : PassSteps(p)

SpecSched == InitSched /\ [][NextSched]_vars

\* SpecMonitor: the scheduler started once and left running; two
\* organizations, the first with two tracked runs
InitMonitor == InitRegistry({<<1, 1>>, <<1, 2>>, <<2, 1>>})

NextMonitor ==
  \/ \E d \in SchedJumps : SchedTick(d)
  \/ (schedHist.starts < 1 /\ StartCall)
  \/ \E p \in SchedPassIds : StartResume(p)
  \/ \E p \in SchedPassIds : \E id \in DOMAIN sched.timers : IntervalFire(id, p)
  \/ \E p \in SchedPassIds : PassSteps(p)

SpecMonitor == InitMonitor /\ [][NextMonitor]_vars

\* the passes begun for the last start() that went past the isRunning test
C13_Mine == SelectSeq(schedHist.began, LAMBDA b : b.gen = schedHist.gens)

\* C13: start() on a stopped scheduler runs one pass at once and then a
\* pass every 30 seconds for as long as stop() is not called, whether or not
\* an earlier pass failed: while start() is suspended no time has passed,
\* and afterwards the passes begun are those of the times startAt,
\* startAt + 30 s, ... up to the next time the interval is due, which is
\* never in the past
C13_PassEvery30s ==
  schedHist.clean =>
    IF sched.starting # <<>>
    THEN C13_Mine = <<>> /\ now = schedHist.startAt
    ELSE /\ sched.isRunning
         /\ sched.intervalId \in DOMAIN sched.timers
         /\ LET due == sched.timers[sched.intervalId].due
                n == (due - schedHist.startAt) \div MONITORING_INTERVAL
            IN /\ due = schedHist.startAt + n * MONITORING_INTERVAL
               /\ due >= now
               /\ Len(C13_Mine) = n
               /\ \A i \in 1..n :
                    C13_Mine[i].at = schedHist.startAt + (i - 1) * MONITORING_INTERVAL
               /\ C13_Mine[1].by = "start"

\* a pass failed and the tick 30 seconds after the start still began a pass
C13_Witness ==
  /\ schedHist.clean
  /\ Len(C13_Mine) >= 2
  /\ C13_Mine[Len(C13_Mine)].by = "tick"
  /\ C13_Mine[Len(C13_Mine)].failedBefore > 0
  /\ C13_Mine[Len(C13_Mine)].at = schedHist.startAt + MONITORING_INTERVAL

\* C16: once stop() has been called and start() has not been called since,
\* no pass begins
C16_NoPassAfterStop ==
  \A i \in 1..Len(schedHist.began) : ~schedHist.began[i].afterStop

\* the last n elements of sequence q
C14_Last(q, n) == SubSeq(q, Len(q) - n + 1, Len(q))

\* what C14 asks of one step of the pass in slot p
C14_StepOrder(p) ==
  LET ps == pass[p]
  IN /\ emitted' # emitted =>
          /\ ps.pc = "detect"
          /\ ps.j = 1
          /\ removed' = removed
     /\ notified' # notified =>
          /\ ps.pc = "notify"
          /\ ps.i = Len(ps.runs) + 1
          /\ ps.j \in 1..Len(ps.changes)
          /\ notified' = Append(notified, ps.changes[ps.j])
          /\ C14_Last(notified', ps.j) = SubSeq(ps.changes, 1, ps.j)
          /\ removed' = removed
     /\ (removed' # removed \/ (ps.pc = "cleanup" /\ pass'[p] # ps)) =>
          /\ ps.pc = "cleanup"
          /\ ps.i = Len(ps.runs) + 1
          /\ ps.j = Len(ps.changes) + 1
          /\ Len(notified) >= Len(ps.changes)
          /\ C14_Last(notified, Len(ps.changes)) = ps.changes
          /\ \A r \in removed' \ removed : r.key[1] = ps.org

\* C14: within a pass, for each organization, the detector runs first, then
\* each change it returned is handed to notifyStatusChange once and in the
\* returned order, and only then cleanupCompletedRuns runs: every change of
\* the pass has been notified when the cleanup removes a run
C14_DetectNotifyCleanupOrder ==
  [][\A p \in SchedPassIds : C14_StepOrder(p)]_vars

\* both changes of organization 1 were notified, in the returned order, and
\* the cleanup then removed one of its runs
C14_Witness ==
  /\ Len(notified) >= 2
  /\ notified[1].organizationId = 1
  /\ notified[2].organizationId = 1
  /\ <<notified[1], notified[2]>> = SubSeq(emitted, 1, 2)
  /\ \E r \in removed : r.key = <<1, notified[2].agentRunId>>

\* what C15 asks of one step of the pass in slot p: the list of the
\* organizations still to process loses its head only, the pass is over
\* only when the list is used up, and a step that ends in a catch block
\* leaves the scheduler's interval as it was
C15_StepGoesOn(p) ==
  LET ps == pass[p]
  IN /\ (ps.orgs # <<>> /\ pass'[p] # ps) =>
          \/ pass'[p].orgs = ps.orgs /\ pass'[p].pc # "idle"
          \/ /\ pass'[p].orgs = Tail(ps.orgs)
             /\ pass'[p].pc = IF Tail(ps.orgs) = <<>> THEN "idle" ELSE "org"
     /\ schedHist'.failed # schedHist.failed => sched' = sched

\* C15: when the detector or the cleanup throws for one organization, the
\* pass goes on with every remaining organization, and the scheduler still
\* begins a pass at every tick: the passes begun are as many as the ticks
\* due so far, plus the first
C15_FailureSkipsOneOrganization ==
  /\ [][\A p \in SchedPassIds : C15_StepGoesOn(p)]_vars
  /\ []((schedHist.gens = 1 /\ sched.starting = <<>>) =>
          /\ sched.intervalId \in DOMAIN sched.timers
          /\ sched.timers[sched.intervalId].due >= now
          /\ Len(schedHist.began) * MONITORING_INTERVAL =
               sched.timers[sched.intervalId].due - schedHist.startAt)

\* the first pass failed for organization 1, went on to notify the change
\* of organization 2, and the next tick's pass began
C15_Witness ==
  /\ schedHist.failed > 0
  /\ Len(schedHist.began) = 2
  /\ schedHist.began[2].failedBefore > 0
  /\ notified # <<>>
  /\ \A i \in 1..Len(notified) : notified[i].organizationId = 2
  /\ \E r \in removed : r.key = <<2, 1>>

(***************************************************************************)
(* SpecCache: the run cache of one organization written and read by its    *)
(* callers, one call at a time, from the stored blobs of InitBlobs         *)
(***************************************************************************)
MaxCacheTicks == 2      \* clock advances
MaxCacheOps == 2        \* setAgentRuns, updateAgentRun, removeAgentRun calls

CacheRunIds == {1, 2}
CacheStatuses == {"ACTIVE", "EVALUATION", "PENDING", "PAUSED", "COMPLETE"}
CacheJumps == {MINUTE, TTL - MINUTE}

\* the runs a caller can pass, and the lists of them without a repeated id,
\* oldest run first (getAgentRuns returns the newest first)
CacheRuns ==
  {[id |-> r, status |-> st, created_at |-> CreatedAt(r)] :
     r \in CacheRunIds, st \in CacheStatuses}

CacheRunLists ==
  {<<>>} \cup {<<a>> : a \in CacheRuns}
         \cup {<<ab[1], ab[2]>> :
                 ab \in {x \in CacheRuns \X CacheRuns : x[1].id < x[2].id}}

NoRun == [id |-> 0, status |-> Null, created_at |-> 0]

\* getAgentRun(organizationId, agentRunId): runs.find(...) || null
GetAgentRun(rc, o, id, t) ==
  LET runs == GetAgentRuns(rc, o, t)
  IN IF \E i \in 1..Len(runs) : runs[i].id = id
     THEN runs[CHOOSE i \in 1..Len(runs) :
                 runs[i].id = id /\ \A j \in 1..(i - 1) : runs[j].id # id]
     ELSE NoRun

\* (mutant) the filter of removeAgentRun keeps every run
FilterRunKeepAll(runs, id) == runs

\* existingRuns.filter((run) => run.id !== agentRunId)
FilterRun(runs, id) == SelectSeq(runs, LAMBDA run : run.id # id)

\* removeAgentRun(organizationId, agentRunId) at time t
RemoveAgentRun(rc, o, id, t) ==
  SetAgentRuns(rc, o, FilterRun(GetAgentRuns(rc, o, t), id), t)

\* getPollingRuns(organizationId) at time t
GetPollingRuns(rc, o, t) ==
  SelectSeq(GetAgentRuns(rc, o, t), LAMBDA run : ShouldPollRun(run))

\* a call of cache.setAgentRuns(o, runs)
SetRuns(o, runs) ==
  /\ nops' = nops + 1
  /\ runCache' = SetAgentRuns(runCache, o, runs, now)
  /\ metadata' = Put(metadata, o, now)
  /\ UNCHANGED <<corrupt, serviceVars, clockVars, remoteVars, trackVars, pass, npass,
                 syncVars, histVars, termAt>>

\* a call of cache.updateAgentRun(o, run)
UpdateRun(o, run) ==
  /\ nops' = nops + 1
  /\ runCache' = UpdateAgentRun(runCache, o, run, now)
  /\ metadata' = Put(metadata, o, now)
  /\ UNCHANGED <<corrupt, serviceVars, clockVars, remoteVars, trackVars, pass, npass,
                 syncVars, histVars, termAt>>

\* a call of cache.removeAgentRun(o, id)
RemoveRun(o, id) ==
  /\ nops' = nops + 1
  /\ runCache' = RemoveAgentRun(runCache, o, id, now)
  /\ metadata' = Put(metadata, o, now)
  /\ UNCHANGED <<corrupt, serviceVars, clockVars, remoteVars, trackVars, pass, npass,
                 syncVars, histVars, termAt>>

\* a call of cache.getPollingRuns(o), as pollActiveRuns makes it
ReadPollingRuns(o) ==
  /\ polling' = [org |-> o, at |-> now, runs |-> GetPollingRuns(runCache, o, now),
                 i |-> 1, statusChanged |-> FALSE]
  /\ UNCHANGED <<corrupt, clockVars, remoteVars, trackVars, cacheVars, pass, npass,
                 syncVars, nops, histVars, termAt, decision, sched, schedHist>>

NextCache ==
  \/ (ticks < MaxCacheTicks /\ \E d \in CacheJumps : Tick(d))
  \/ (nops < MaxCacheOps /\ \E runs \in CacheRunLists : SetRuns(1, runs))
  \/ (nops < MaxCacheOps /\ \E run \in CacheRuns : UpdateRun(1, run))
  \/ (nops < MaxCacheOps /\ \E id \in SyncRunIds : RemoveRun(1, id))
  \/ ReadPollingRuns(1)

\* the stored blob holds at most two of the three runs
InitCache == InitSync /\ Len(runCache[1]) <= 2

SpecCache == InitCache /\ [][NextCache]_vars

\* the set of the elements of sequence q
C17_Range(q) == {q[i] : i \in 1..Len(q)}

\* what C17 asks of the state after setAgentRuns(1, runs)
C17_SetPost(runs) ==
  /\ Len(runCache'[1]) = Len(runs)
  /\ \A i \in 1..Len(runCache'[1]) : runCache'[1][i].expiresAt = now + TTL
  /\ \A t \in {now, now + MINUTE, now + TTL - 1} :
       /\ Len(GetAgentRuns(runCache', 1, t)) = Len(runs)
       /\ C17_Range(GetAgentRuns(runCache', 1, t)) = C17_Range(runs)

\* C17: setAgentRuns(org, runs) is a full overwrite: a getAgentRuns(org)
\* less than 5 minutes later returns exactly the runs passed in, and every
\* stored entry has expiresAt = write time + 5 minutes
C17_SetRunsOverwrites ==
  [][\A runs \in CacheRunLists : SetRuns(1, runs) => C17_SetPost(runs)]_vars

\* a set of two runs was written over a blob that held live run 3, which
\* a read now does not return
C17_Witness ==
  /\ nops = 1
  /\ now = 0
  /\ Len(runCache[1]) = 2
  /\ \A i \in 1..2 : runCache[1][i].expiresAt = TTL /\ runCache[1][i].data.id # 3
  /\ metadata = Put(EmptyFn, 1, 0)

\* what C18 asks of the state after updateAgentRun(1, run)
C18_UpdatePost(run) ==
  LET before == GetAgentRuns(runCache, 1, now)
      after == GetAgentRuns(runCache', 1, now)
  IN /\ GetAgentRun(runCache', 1, run.id, now) = run
     /\ Cardinality({i \in 1..Len(after) : after[i].id = run.id}) = 1
     /\ C17_Range(after) =
          {r \in C17_Range(before) : r.id # run.id} \cup {run}
     /\ Len(after) = Cardinality(C17_Range(after))

\* C18: after updateAgentRun(org, run), getAgentRun(org, run.id) returns the
\* run passed in, getAgentRuns(org) holds exactly one record with that id,
\* and every other live run is still returned unchanged
C18_UpdateRunReplaces ==
  [][\A run \in CacheRuns : UpdateRun(1, run) => C18_UpdatePost(run)]_vars

\* run 1 was cached as ACTIVE beside run 2 and was updated to COMPLETE:
\* both are returned, run 1 as COMPLETE
C18_Witness ==
  /\ nops = 2
  /\ Len(GetAgentRuns(runCache, 1, now)) = 2
  /\ GetAgentRun(runCache, 1, 1, now).status = "COMPLETE"
  /\ GetAgentRun(runCache, 1, 2, now).status = "PAUSED"
  /\ \E i \in 1..2 : runCache[1][i].timestamp > 0

\* what C19 asks of the state after removeAgentRun(1, id)
C19_RemovePost(id) ==
  LET before == GetAgentRuns(runCache, 1, now)
      after == GetAgentRuns(runCache', 1, now)
  IN /\ GetAgentRun(runCache', 1, id, now) = NoRun
     /\ after = SelectSeq(before, LAMBDA r : r.id # id)
     /\ (\A i \in 1..Len(before) : before[i].id # id) => after = before

\* C19: after removeAgentRun(org, id), getAgentRun(org, id) returns null and
\* getAgentRuns(org) returns all the other live runs unchanged; removing an
\* id that is not cached leaves the returned runs unchanged
C19_RemoveRunFilters ==
  [][\A id \in SyncRunIds : RemoveRun(1, id) => C19_RemovePost(id)]_vars

\* runs 1 and 2 were written, then run 1 was removed: run 2 alone is returned
C19_Witness ==
  /\ nops = 2
  /\ now > 0
  /\ Len(runCache[1]) = 1
  /\ runCache[1][1].data.id = 2
  /\ runCache[1][1].timestamp = now
  /\ GetAgentRun(runCache, 1, 1, now) = NoRun

\* C20: getPollingRuns(org) returns exactly the runs of getAgentRuns(org)
\* whose status is ACTIVE or EVALUATION, which are the data of the live
\* entries stored with isPolling true; no run in another status is returned
C20_PollingRunsAreActiveOrEvaluation ==
  [][ReadPollingRuns(1) =>
       LET runs == GetAgentRuns(runCache, 1, now)
           live == LiveEntries(runCache[1], now)
       IN /\ polling'.runs =
               SelectSeq(runs, LAMBDA r : r.status \in {"ACTIVE", "EVALUATION"})
          /\ C17_Range(polling'.runs) =
               {live[i].data : i \in {n \in 1..Len(live) : live[n].isPolling}}
          /\ \A i \in 1..Len(polling'.runs) :
               polling'.runs[i].status \notin {"PENDING", "PAUSED", "COMPLETE"}]_vars

\* a read of the polling runs returned the EVALUATION run and left out the
\* PENDING run cached beside it
C20_Witness ==
  /\ polling.at = now
  /\ Len(polling.runs) = 1
  /\ polling.runs[1].status = "EVALUATION"
  /\ \E i \in 1..Len(runCache[1]) :
       /\ runCache[1][i].data.status = "PENDING"
       /\ EntryLive(runCache[1][i], now)

(***************************************************************************)
(* SpecCacheSync: SpecCache with syncAgentRuns in flight: the cache's       *)
(* callers act between the awaits of a sync                                 *)
(***************************************************************************)
NextCacheSync ==
  \/ (ticks < MaxCacheTicks /\ \E d \in CacheJumps : Tick(d))
  \/ (nops < MaxCacheOps /\
        \E runs \in {l \in CacheRunLists : Len(l) <= 1} : SetRuns(1, runs))
  \/ (nops < MaxCacheOps /\ \E run \in CacheRuns : UpdateRun(1, run))
  \/ (nops < MaxCacheOps /\ \E id \in SyncRunIds : RemoveRun(1, id))
  \/ (nsync < 1 /\ SyncStart(1, "ok"))
  \/ \E ok \in BOOLEAN : SyncFetch(ok, "COMPLETE")
  \/ SyncFinish("ok")

SpecCacheSync == InitCache /\ [][NextCacheSync]_vars

\* C21: the sequence getAgentRuns(org) returns is ordered by created_at
\* descending after any sequence of setAgentRuns, updateAgentRun,
\* removeAgentRun and syncAgentRuns
C21_RunsNewestFirst ==
  LET runs == GetAgentRuns(runCache, 1, now)
  IN \A i \in 1..Len(runs) : \A j \in 1..Len(runs) :
       i < j => runs[i].created_at >= runs[j].created_at

\* updateAgentRun prepended run 1, older than the cached run 2: the blob
\* holds run 1 first and getAgentRuns returns run 2 first
C21_Witness ==
  /\ nops > 0
  /\ Len(LiveEntries(runCache[1], now)) >= 2
  /\ runCache[1][1].data.id = 1
  /\ runCache[1][1].timestamp = now
  /\ runCache[1][2].data.id = 2
  /\ GetAgentRuns(runCache, 1, now)[1].id = 2

\* the ids of the runs getAgentRuns returns from cache contents rc now
C27_Ids(rc) == {r.id : r \in C17_Range(GetAgentRuns(rc, 1, now))}

\* C27: writers of one organization's run set are serialized, no update is
\* lost: a sync changes no id, so in every serial order of a sync and of
\* the calls made while it was in flight the ids returned at the end are
\* the ids those calls left; when no time has passed since the sync began,
\* its final write therefore leaves the ids returned by getAgentRuns as
\* they were just before it
C27_SyncWriteKeepsOtherUpdates ==
  [][(SyncFinish("ok") /\ syncStatus[1].lastSync = now) =>
       C27_Ids(runCache') = C27_Ids(runCache)]_vars

(***************************************************************************)
(* SpecCorrupt: stored strings get damaged between the operations; two     *)
(* tracked runs of organization 1, a cached run list and a sync status     *)
(***************************************************************************)
\* the keys of organization 1 that can hold a damaged string
CorruptKeys == {<<"runs", 1, 0>>, <<"sync", 1, 0>>, <<"index", 1, 0>>,
                <<"tracked", 1, 1>>, <<"tracked", 1, 2>>}

\* the string stored under key k is replaced by one JSON.parse rejects;
\* only a stored string can be damaged, and no operation is in flight
CorruptBlob(k) ==
  /\ Quiescent
  /\ sync.pc \in {"idle", "done"}
  /\ k \notin corrupt
  /\ \/ k[1] = "runs" /\ k[2] \in DOMAIN runCache
     \/ k[1] = "sync" /\ k[2] \in DOMAIN syncStatus
     \/ k[1] = "index" /\ k[2] \in DOMAIN keyIndex
     \/ k[1] = "tracked" /\ <<k[2], k[3]>> \in DOMAIN tracked
  /\ corrupt' = corrupt \cup {k}
  /\ UNCHANGED <<clockVars, remoteVars, trackVars, cacheVars, syncVars, pass,
                 npass, nops, histVars, termAt, serviceVars>>

MaxCorruptTicks == 1

InitCorrupt == InitRegistry({<<1, 1>>, <<1, 2>>})

\* the cache and the sync status are written while every string is intact;
\* the reads (loadCachedData, the monitoring pass) come at any time
NextCorrupt ==
  \/ (ticks < MaxCorruptTicks /\ Tick(MINUTE))
  \/ (nops < 1 /\ corrupt = {} /\
        \E runs \in {l \in CacheRunLists : Len(l) = 1 /\ l[1].id = 1} :
          SetRuns(1, runs))
  \/ (nsync < 1 /\ nops = 1 /\ corrupt = {} /\ SyncStart(1, "ok"))
  \/ \E ok \in BOOLEAN : SyncFetch(ok, "COMPLETE")
  \/ SyncFinish("ok")
  \/ \E k \in CorruptKeys : CorruptBlob(k)
  \/ LoadCachedData(1)
  \/ PassStep(1)

SpecCorrupt == InitCorrupt /\ [][NextCorrupt]_vars

\* the ids of the tracked runs of organization 1 whose key is indexed and
\* whose entry is stored and parses
C22_Readable ==
  {r \in C17_Range(keyIndex[1]) :
     <<1, r>> \in DOMAIN tracked /\ <<"tracked", 1, r>> \notin corrupt}

\* what the reads return in the current state
C22_Reads ==
  /\ <<"runs", 1, 0>> \in corrupt => GetAgentRuns(runCache, 1, now) = <<>>
  /\ <<"sync", 1, 0>> \in corrupt => GetSyncStatus(syncStatus, 1).status = "idle"
  /\ <<"index", 1, 0>> \in corrupt => GetTrackedRuns(tracked, keyIndex, 1) = <<>>
  /\ <<"index", 1, 0>> \notin corrupt =>
       {tr.id : tr \in C17_Range(GetTrackedRuns(tracked, keyIndex, 1))} = C22_Readable
  /\ pass[1].pc = "detect" =>
       \A i \in 1..Len(pass[1].runs) : <<"tracked", 1, pass[1].runs[i].id>> \notin corrupt

\* C22: a stored string that cannot be parsed reads as a cache miss:
\* getAgentRuns returns [], getSyncStatus returns idle, a key index that
\* cannot be parsed reads as empty, and getTrackedRuns skips just the
\* entries that cannot be parsed and returns all the others (the pass in
\* flight works on exactly those); loadCachedData shows an empty list and
\* idle
C22_CorruptReadsAsMiss ==
  /\ []C22_Reads
  /\ [][view' # view =>
          /\ <<"runs", 1, 0>> \in corrupt => view'.runs = <<>>
          /\ <<"sync", 1, 0>> \in corrupt => view'.syncStatus = "idle"]_vars

\* the cached list holds a live run and the stored status is success, both
\* strings and the entry of run 1 were damaged later, and then the hook
\* loaded an empty list with status idle and the pass read run 2 alone
C22_Witness ==
  /\ {<<"runs", 1, 0>>, <<"sync", 1, 0>>, <<"tracked", 1, 1>>} \subseteq corrupt
  /\ <<"index", 1, 0>> \notin corrupt
  /\ LiveEntries(runCache[1], now) # <<>>
  /\ runCache[1][1].timestamp < now
  /\ syncStatus[1].status = "success"
  /\ syncStatus[1].lastSync < now
  /\ view = [org |-> 1, at |-> now, runs |-> <<>>, syncStatus |-> "idle"]
  /\ pass[1].pc = "detect"
  /\ Len(pass[1].runs) = 1
  /\ pass[1].runs[1].id = 2

\* run r of organization 1, as the remote system has it, is tracked with
\* that status, its organization is listed, and getAgentRun returns it
C23_Tracked(r) ==
  LET run == RemoteRun(remote, 1, r)
      trackedRuns == GetTrackedRuns(tracked, keyIndex, 1)
  IN /\ \E i \in 1..Len(trackedRuns) :
          trackedRuns[i].id = r /\ trackedRuns[i].lastKnownStatus = run.status
     /\ Includes(trackedOrgs, 1)
     /\ GetAgentRun(runCache, 1, r, now) = run

\* C23: after addToTracking(org, run), called with the run just fetched or
\* created, getTrackedRuns(org) holds the run with lastKnownStatus =
\* run.status, org is a tracked organization and getAgentRun returns the run;
\* the next pass reads every tracked run of the organization
C23_AddedRunIsTracked ==
  /\ [][\A r \in RunIds : (\E s \in RemoteStatuses : TrackRun(1, r, s)) =>
          C23_Tracked(r)']_vars
  /\ [][PassCheck(1) =>
          \A k \in DOMAIN tracked :
            \E i \in 1..Len(pass'[1].runs) : pass'[1].runs[i].id = k[2]]_vars

\* run 2 was added after run 1, and the pass begun right after reads both
C23_Witness ==
  /\ nops = 2
  /\ C23_Tracked(2)
  /\ <<1, 1>> \in DOMAIN tracked
  /\ tracked[<<1, 2>>].data.addedAt = now
  /\ tracked[<<1, 1>>].data.addedAt < now
  /\ pass[1].pc = "detect"
  /\ Len(pass[1].runs) = 2

\* C24: the lastKnownStatus of a tracked run that stays in the registry is
\* changed by no step other than the detector's (one iteration of the loop
\* of checkForStatusChanges)
C24_OnlyDetectorWritesStatus ==
  [][\A k \in DOMAIN tracked \cap DOMAIN tracked' :
       tracked'[k].data.lastKnownStatus # tracked[k].data.lastKnownStatus
         => PassFetch(1)]_vars

\* C25: a notification the toast could not show (shown by the HUD, or by
\* neither) does not end the pass: the step is not caught as a failure, the
\* next change of the organization is dispatched, after the last one the
\* cleanup runs, and the cleanup finds every change dispatched
C25_NotifierFailureGoesOn ==
  /\ [][\A p \in SchedPassIds :
          (notified' # notified /\ decision'.shown \in {"hud", "none"}) =>
            /\ pass'[p] = [pass[p] EXCEPT
                 !.j = pass[p].j + 1,
                 !.pc = IF pass[p].j < Len(pass[p].changes)
                        THEN "notify" ELSE "cleanup"]
            /\ schedHist'.failed = schedHist.failed]_vars
  /\ [](\A p \in SchedPassIds : pass[p].pc = "cleanup" =>
          C14_Last(notified, Len(pass[p].changes)) = pass[p].changes)

\* neither the toast nor the HUD showed the first change of organization 1,
\* and the pass is about to dispatch the second
C25_Witness ==
  /\ pass[1].pc = "notify"
  /\ pass[1].org = 1
  /\ pass[1].j = 2
  /\ Len(pass[1].changes) = 2
  /\ decision.shown = "none"
  /\ decision.agentRunId = pass[1].changes[1].agentRunId
  /\ notified = <<pass[1].changes[1]>>

(***************************************************************************)
(* SpecCrash: Spec, and the process can be terminated at any point of a    *)
(* pass; what is stored survives, the pass and its local array of changes  *)
(* do not                                                                  *)
(***************************************************************************)
Crash ==
  /\ \E p \in PassIds : pass[p].pc # "idle"
  /\ pass' = [p \in PassIds |-> IdlePass]
  /\ UNCHANGED <<corrupt, serviceVars, clockVars, remoteVars, trackVars, cacheVars,
                 npass, syncVars, nops, histVars, termAt>>

NextCrash == Next \/ Crash

SpecCrash == Init /\ [][NextCrash]_vars

\* C26: whatever the point at which a pass is interrupted, every change
\* whose registry write has happened has been handed to the notifier, or is
\* held by a pass still in flight that will hand it over
C26_WrittenChangesAreEmitted ==
  \A i \in 1..Len(emitted) :
    \/ Includes(notified, emitted[i])
    \/ \E p \in PassIds : /\ pass[p].pc \in {"detect", "notify"}
                          /\ Includes(pass[p].changes, emitted[i])

(***************************************************************************)
(* SpecPoll: the poller of useCachedAgentRuns on a cache of two in-flight  *)
(* runs written at time 0; a poll runs at once and then every 30 seconds;  *)
(* each fetch of a poll succeeds or fails                                  *)
(***************************************************************************)
MaxPolls == 11          \* interval ticks of the poller

\* the statuses apiClient.getAgentRun returns to the poller
PollStatuses == {"ACTIVE", "EVALUATION", "COMPLETE"}

\* the interval fires 30 seconds after the previous poll began, once that
\* poll is over: pollActiveRuns up to cache.getPollingRuns
PollInterval(o) ==
  /\ polling.org = o
  /\ polling.i > Len(polling.runs)
  /\ now' = now + POLL_INTERVAL
  /\ ticks' = ticks + 1
  /\ polling' = [org |-> o, at |-> now', i |-> 1, statusChanged |-> FALSE,
                 runs |-> GetPollingRuns(runCache, o, now')]
  /\ UNCHANGED <<corrupt, remoteVars, trackVars, cacheVars, pass, npass, syncVars,
                 nops, histVars, termAt, decision, sched, schedHist>>

\* one callback of pollingRuns.map: apiClient.getAgentRun returns the run
\* with status s and cache.updateAgentRun stores it, or the fetch fails and
\* the catch keeps the run as it was; after the last one, loadCachedData if
\* a status changed
PollUpdate(ok, s) ==
  /\ polling.i <= Len(polling.runs)
  /\ LET o == polling.org
         run == polling.runs[polling.i]
         changed == polling.statusChanged \/ (ok /\ s # run.status)
     IN /\ IF ok
           THEN /\ runCache' = UpdateAgentRun(runCache, o, [run EXCEPT !.status = s], now)
                /\ metadata' = Put(metadata, o, now)
           ELSE UNCHANGED <<runCache, metadata>>
        /\ polling' = [polling EXCEPT !.i = @ + 1, !.statusChanged = changed]
        /\ view' = IF polling.i = Len(polling.runs) /\ changed
                   THEN [org |-> o, at |-> now,
                         runs |-> GetAgentRuns(runCache', o, now),
                         syncStatus |-> GetSyncStatus(syncStatus, o).status]
                   ELSE view
  /\ UNCHANGED <<corrupt, clockVars, remoteVars, trackVars, pass, npass, syncStatus,
                 sync, nsync, nops, histVars, termAt, decision, sched, schedHist>>

\* the cache holds runs 1 and 2, both ACTIVE, written at time 0
InitPoll ==
  /\ InitSync
  /\ Len(runCache[1]) = 2
  /\ \A i \in 1..2 : runCache[1][i].data.id = i /\ runCache[1][i].expiresAt = TTL

NextPoll ==
  \/ (polling.org = 0 /\ ReadPollingRuns(1))
  \/ (ticks < MaxPolls /\ PollInterval(1))
  \/ \E ok \in BOOLEAN, s \in PollStatuses : PollUpdate(ok, s)

SpecPoll == InitPoll /\ [][NextPoll]_vars

\* C28: while the poller runs, a cached run whose status is ACTIVE or
\* EVALUATION is returned by getAgentRuns, however long ago it was cached:
\* no stored entry with such a status is expired
C28_InFlightRunStaysCached ==
  polling.org = 1 =>
    \A i \in 1..Len(runCache[1]) :
      ShouldPollRun(runCache[1][i].data) => EntryLive(runCache[1][i], now)

\* C29: the status stored for the organization is syncing only while a
\* syncAgentRuns call is in flight; once the call is over the stored status
\* is the one the call returned, and before any sync getSyncStatus gives idle
C29_SyncingOnlyWhileInFlight ==
  /\ nsync = 0 => GetSyncStatus(syncStatus, 1).status = "idle"
  /\ sync.pc \in {"idle", "done"} => GetSyncStatus(syncStatus, 1).status # "syncing"
  /\ (sync.pc = "done" /\ sync.result.status \in {"success", "error"}) =>
       GetSyncStatus(syncStatus, 1).status = sync.result.status

\* the ids of the runs of sequence q
C30_Ids(q) == {q[n].id : n \in 1..Len(q)}

\* C30: syncAgentRuns fetches each run getAgentRuns returned at its start
\* once, in order, and pushes one run with the same id for each; the run set
\* it writes back, and getAgentRuns right after, holds exactly the ids that
\* were live when the sync started
C30_SyncKeepsTheRunSet ==
  /\ [](sync.pc \in {"fetch", "write"} =>
          /\ Len(sync.outcomes) = sync.i - 1
          /\ Len(sync.updatedRuns) = sync.i - 1
          /\ sync.i - 1 <= Len(sync.cachedRuns)
          /\ sync.pc = "write" => sync.i - 1 = Len(sync.cachedRuns)
          /\ \A n \in 1..Len(sync.updatedRuns) :
               sync.updatedRuns[n].id = sync.cachedRuns[n].id)
  /\ [][(\E outcome \in {"ok", "store"} : SyncFinish(outcome)) =>
          /\ C30_Ids(GetAgentRuns(runCache', 1, now')) = C30_Ids(sync.cachedRuns)
          /\ Len(GetAgentRuns(runCache', 1, now')) = Len(sync.cachedRuns)]_vars

\* a sync of two live runs, the first refetched and the second kept after a
\* failed fetch, has just returned success, some time after it started
C30_Witness ==
  /\ sync.pc = "done"
  /\ sync.result.status = "success"
  /\ Len(sync.cachedRuns) = 2
  /\ sync.outcomes = <<TRUE, FALSE>>
  /\ syncStatus[1].lastSync = now
  /\ now > 0
  /\ Len(runCache[1]) = 2
  /\ C30_Ids(GetAgentRuns(runCache, 1, now)) = C30_Ids(sync.cachedRuns)

\* C40: a change to a status the switch does not name (FAILED, PAUSED,
\* PENDING, UNKNOWN, any other string) from a different non-null status is
\* notified with the generic status-changed title and message and the
\* success style; none of them, FAILED included, gets the failure style
C40_OtherStatusIsGenericSuccess ==
  (/\ decision.shown # "never"
   /\ decision.newStatus \notin C11_Finished \cup {"ACTIVE", "EVALUATION"}
   /\ decision.oldStatus \notin {Null, decision.newStatus}) =>
    /\ decision.result.shouldNotify
    /\ decision.result.title = <<decision.agentRunId, "Status Changed">>
    /\ decision.result.message = <<"Status changed to", decision.newStatus>>
    /\ decision.result.style = "Success"

\* ACTIVE -> FAILED was notified as a generic change with the success style
C40_Witness ==
  /\ decision.shown \in ShowOutcomes
  /\ decision.oldStatus = "ACTIVE"
  /\ decision.newStatus = "FAILED"
  /\ decision.result.style = "Success"
  /\ decision.result.title = <<decision.agentRunId, "Status Changed">>

(***************************************************************************)
(* SpecChain: Spec with a remote system that also puts a run under         *)
(* evaluation, and a user who adds each run once                           *)
(***************************************************************************)
ChainStatuses == {"ACTIVE", "EVALUATION", "COMPLETE", Null}

NextChain ==
  \/ (ticks < MaxTicks /\ \E d \in Jumps : Tick(d))
  \/ \E s \in ChainStatuses : RemoteChange(1, 1, s)
  \/ (Quiescent /\ \E r \in RunIds, s \in ChainStatuses :
        <<1, r>> \notin DOMAIN remote /\ TrackRun(1, r, s))
  \/ PassStep(1)

SpecChain == Init /\ [][NextChain]_vars

\* the changes emitted so far for run r of organization 1, oldest first
C37_EventsOf(r) == SelectSeq(emitted, LAMBDA c : c.agentRunId = r)

C37_Recorded(s) == IF s = "UNKNOWN" THEN Null ELSE s

C39_Decision(c) ==
  GetStatusChangeNotification(c.agentRunId, c.oldStatus, c.newStatus)

\* C39: the registry takes the status of every change the detector emits,
\* notified or not: a change to EVALUATION is not notified and leaves
\* EVALUATION in the registry, so the next change of the run starts from
\* EVALUATION; when it goes to ACTIVE it is notified as active again, when
\* it goes to COMPLETE it is notified as complete
C39_UnnotifiedChangeAdvancesRegistry ==
  /\ [][emitted' # emitted =>
          LET c == emitted'[Len(emitted')]
          IN c.newStatus = "EVALUATION" =>
               /\ ~C39_Decision(c).shouldNotify
               /\ tracked'[<<c.organizationId, c.agentRunId>>].data.lastKnownStatus
                    = "EVALUATION"]_vars
  /\ [](\A r \in RunIds :
          LET ev == C37_EventsOf(r)
          IN \A n \in 2..Len(ev) :
               ev[n - 1].newStatus = "EVALUATION" =>
                 /\ ev[n].oldStatus = "EVALUATION"
                 /\ ev[n].newStatus = "ACTIVE" =>
                      /\ C39_Decision(ev[n]).shouldNotify
                      /\ C39_Decision(ev[n]).title = <<r, "Active">>
                 /\ ev[n].newStatus = "COMPLETE" =>
                      /\ C39_Decision(ev[n]).shouldNotify
                      /\ C39_Decision(ev[n]).title = <<r, "Complete">>)
  /\ [](decision.shown # "never" => decision.result = C39_Decision(decision))

\* run 1 went ACTIVE -> EVALUATION in one pass (not notified) and back to
\* ACTIVE in the next, and that change was just shown as active
C39_Witness ==
  /\ Len(C37_EventsOf(1)) = 2
  /\ C37_EventsOf(1)[1].oldStatus = "ACTIVE"
  /\ C37_EventsOf(1)[1].newStatus = "EVALUATION"
  /\ C37_EventsOf(1)[2].oldStatus = "EVALUATION"
  /\ C37_EventsOf(1)[2].newStatus = "ACTIVE"
  /\ Len(notified) = 2
  /\ decision.agentRunId = 1
  /\ decision.shown = "toast"
  /\ decision.result.title = <<1, "Active">>
  /\ tracked[<<1, 1>>].data.lastKnownStatus = "ACTIVE"

\* C35: whatever the order of the start() and stop() calls, at most one
\* interval is set and not cleared, and isMonitoring() is false when no
\* interval is set and no start() is suspended at its await
C35_AtMostOneTimer ==
  /\ Cardinality(DOMAIN sched.timers) <= 1
  /\ (sched.timers = EmptyFn /\ sched.starting = <<>>) => ~sched.isRunning

(***************************************************************************)
(* SpecOrgs: two organizations, each with a cached run, a tracked run, a   *)
(* key index and a sync status; every call is made for organization 1, and *)
(* the pass goes through both                                              *)
(***************************************************************************)
MaxOrgTicks == 1        \* clock advances
MaxOrgOps == 2          \* cache and registry calls for organization 1

\* (mutant) clearCache(organizationId) removes the organization's tracked
\* runs as well
ClearCacheUntrack(o) ==
  /\ nops' = nops + 1
  /\ runCache' = Del(runCache, o)
  /\ metadata' = Del(metadata, o)
  /\ tracked' = [k \in {x \in DOMAIN tracked : x[1] # o} |-> tracked[k]]
  /\ UNCHANGED <<corrupt, serviceVars, clockVars, remoteVars, keyIndex, trackedOrgs,
                 pass, npass, syncVars, histVars, termAt>>

\* clearCache(organizationId): the organization's blob is removed and its
\* entry deleted from the metadata, which is saved
ClearCache(o) ==
  /\ nops' = nops + 1
  /\ runCache' = Del(runCache, o)
  /\ metadata' = Del(metadata, o)
  /\ UNCHANGED <<corrupt, serviceVars, clockVars, remoteVars, trackVars, pass, npass,
                 syncVars, histVars, termAt>>

InitOrgs ==
  /\ now = CLEANUP_HOURS * HOUR + MINUTE
  /\ ticks = 0
  /\ remote = [k \in {<<1, 1>>, <<2, 1>>} |-> [status |-> "COMPLETE", ver |-> 0]]
  /\ rver = 0
  /\ tracked = [k \in {<<1, 1>>, <<2, 1>>} |->
       [InitTracked(k[2], "ACTIVE") EXCEPT !.data.organizationId = k[1]]]
  /\ keyIndex = [o \in {1, 2} |-> <<1>>]
  /\ trackedOrgs = <<1, 2>>
  /\ runCache = [o \in {1, 2} |->
       <<MakeEntry([id |-> 1, status |-> "ACTIVE", created_at |-> CreatedAt(1)], now)>>]
  /\ metadata = [o \in {1, 2} |-> now]
  /\ syncStatus = [o \in {1, 2} |-> MakeSyncState("success", now, NoError)]
  /\ pass = [p \in PassIds |-> IdlePass]
  /\ npass = 0
  /\ sync = IdleSync
  /\ nsync = 0
  /\ view = NoView
  /\ nops = 0
  /\ emitted = <<>>
  /\ notified = <<>>
  /\ removed = {}
  /\ termAt = EmptyFn
  /\ InitService

OrgRuns ==
  {[id |-> r, status |-> st, created_at |-> CreatedAt(r)] :
     r \in RunIds, st \in {"ACTIVE", "COMPLETE"}}

NextOrgs ==
  \/ (ticks < MaxOrgTicks /\ Quiescent /\ Tick(TTL))
  \/ (Quiescent /\ nops < MaxOrgOps /\ \E run \in OrgRuns : SetRuns(1, <<run>>))
  \/ (Quiescent /\ nops < MaxOrgOps /\ \E run \in OrgRuns : UpdateRun(1, run))
  \/ (Quiescent /\ nops < MaxOrgOps /\ \E id \in RunIds : RemoveRun(1, id))
  \/ (Quiescent /\ nops < MaxOrgOps /\ ClearCache(1))
  \/ (Quiescent /\ nops < MaxOrgOps /\ Cleanup(1))
  \/ (Quiescent /\ \E r \in RunIds, s \in {"ACTIVE", "COMPLETE"} : TrackRun(1, r, s))
  \/ (Quiescent /\ nsync < 1 /\ SyncStart(1, "ok"))
  \/ SyncFetch(TRUE, "COMPLETE")
  \/ SyncFinish("ok")
  \/ PassStep(1)

SpecOrgs == InitOrgs /\ [][NextOrgs]_vars

\* the step is a call for organization 1, or the part of a pass that works
\* on organization 1
C31_ForOrg1 ==
  \/ pass' = pass
  \/ pass[1].pc = "org" /\ Head(pass[1].orgs) = 1
  \/ pass[1].pc \in {"detect", "notify", "cleanup"} /\ pass[1].org = 1

\* what organization o has stored: its run set, its tracked runs, its key
\* index, its sync status, and its entries in the two blobs all organizations
\* share (the metadata and the list of tracked organizations)
C31_Own(o, rc, tk, idx, ss, md, orgIds) ==
  <<IF o \in DOMAIN rc THEN rc[o] ELSE <<>>,
    {<<k, tk[k]>> : k \in {x \in DOMAIN tk : x[1] = o}},
    IF o \in DOMAIN idx THEN idx[o] ELSE <<>>,
    IF o \in DOMAIN ss THEN <<ss[o]>> ELSE <<>>,
    IF o \in DOMAIN md THEN <<md[o]>> ELSE <<>>,
    Includes(orgIds, o)>>

C31_OwnNow(o) ==
  C31_Own(o, runCache, tracked, keyIndex, syncStatus, metadata, trackedOrgs)

\* the part that holds: the calls for organization 1 leave organization
\* 2's run set, tracked runs, key index and sync status as they were, and
\* leave its entries in the metadata and in the list of tracked organizations
\* as they were
C31_OtherOrgUntouched ==
  [][C31_ForOrg1 =>
       C31_Own(2, runCache', tracked', keyIndex', syncStatus', metadata', trackedOrgs')
         = C31_OwnNow(2)]_vars

\* C31: the calls for organization 1 leave organization 2's run set,
\* tracked runs, key index and sync status as they were, and write no blob
\* that several organizations share: the metadata and the list of tracked
\* organizations, both holding an entry of organization 2, stay as they were
C31_NoSharedBlobWritten ==
  [][C31_ForOrg1 =>
       /\ C31_Own(2, runCache', tracked', keyIndex', syncStatus', metadata', trackedOrgs')
            = C31_OwnNow(2)
       /\ metadata' = metadata
       /\ trackedOrgs' = trackedOrgs]_vars

\* a call that takes runs out of organization 1's run set, or time passing
\* until they expire
C32_CacheCall ==
  \/ \E id \in RunIds : RemoveRun(1, id)
  \/ ClearCache(1)
  \/ Tick(TTL)

\* C32: removeAgentRun, clearCache and the expiry of cached runs leave the
\* registry of tracked runs as it was, lastKnownStatus included, and a pass
\* checks every tracked run of the organization whatever the run set holds;
\* cleanupCompletedRuns, removing tracked runs, leaves the run set as it was
C32_RegistryAndRunSetApart ==
  /\ [][C32_CacheCall => tracked' = tracked]_vars
  /\ [](pass[1].pc = "detect" =>
          C30_Ids(pass[1].runs) =
            {k[2] : k \in {x \in DOMAIN tracked : x[1] = pass[1].org}})
  /\ [][(Cleanup(1) \/ PassCleanup(1)) => runCache' = runCache]_vars

\* run 2 was tracked and then removed from the run set: it is tracked and
\* no longer cached; run 1 was removed from the registry by the cleanup of
\* a pass and is cached still
C32_Witness ==
  /\ nops = 2
  /\ <<1, 2>> \in DOMAIN tracked /\ 2 \notin C27_Ids(runCache)
  /\ <<1, 1>> \notin DOMAIN tracked /\ 1 \in C27_Ids(runCache)
  /\ \E x \in removed : x.key = <<1, 1>>

C33_NoDuplicate(q) == \A i, j \in 1..Len(q) : q[i] = q[j] => i = j

\* C33: the key index of an organization holds each key once, and so does
\* the list of tracked organizations; getTrackedRuns returns one record for a
\* run; the index changes only by a key it did not hold being pushed at its
\* end, so it lists the keys in the order they were first added
C33_IndexInInsertionOrder ==
  /\ [](/\ C33_NoDuplicate(trackedOrgs)
        /\ \A o \in DOMAIN keyIndex :
             /\ C33_NoDuplicate(keyIndex[o])
             /\ C33_NoDuplicate([n \in 1..Len(GetTrackedRuns(tracked, keyIndex, o)) |->
                                   GetTrackedRuns(tracked, keyIndex, o)[n].id]))
  /\ [][\A o \in DOMAIN keyIndex' :
          LET old == IF o \in DOMAIN keyIndex THEN keyIndex[o] ELSE <<>>
          IN keyIndex'[o] # old =>
               \E r \in RunIds : /\ ~Includes(old, r)
                                 /\ keyIndex'[o] = Append(old, r)]_vars

\* the same run was tracked twice: one key, one record, one organization
C33_Witness ==
  /\ nops = 2
  /\ 1 \in DOMAIN keyIndex /\ keyIndex[1] = <<2>>
  /\ Len(GetTrackedRuns(tracked, keyIndex, 1)) = 1
  /\ trackedOrgs = <<1>>

\* the runs of organization o whose key is indexed and whose entry is stored
C34_Stored(o) ==
  {r \in C17_Range(keyIndex[o]) : <<o, r>> \in DOMAIN tracked}

\* C34: getTrackedRuns returns the runs whose indexed key has a stored
\* entry, all of them and no other; a pass fetches only runs getTrackedRuns
\* gave it, and a run is fetched, and a change emitted for it, only while
\* its entry is stored
C34_MissingEntryIsSkipped ==
  /\ [](\A o \in DOMAIN keyIndex :
          C30_Ids(GetTrackedRuns(tracked, keyIndex, o)) = C34_Stored(o))
  /\ [](\A n \in 1..Len(pass[1].fetched) :
          pass[1].fetched[n][1] \in C30_Ids(pass[1].runs))
  /\ [][PassCheck(1) =>
          C30_Ids(pass'[1].runs) = IF pass'[1].org \in DOMAIN keyIndex
                                   THEN C34_Stored(pass'[1].org) ELSE {}]_vars
  /\ [][PassFetch(1) =>
          <<pass[1].org, pass'[1].fetched[Len(pass'[1].fetched)][1]>>
             \in DOMAIN tracked]_vars
  /\ [][emitted' # emitted =>
          <<emitted'[Len(emitted')].organizationId,
            emitted'[Len(emitted')].agentRunId>> \in DOMAIN tracked]_vars

\* the cleanup removed the entry of run 1 and left its key in the index; the
\* next pass was given run 2 alone and has fetched it
C34_Witness ==
  /\ 1 \in DOMAIN keyIndex /\ Len(keyIndex[1]) = 2
  /\ <<1, 1>> \notin DOMAIN tracked
  /\ \E x \in removed : x.key = <<1, 1>>
  /\ C30_Ids(pass[1].runs) = {2}
  /\ Len(pass[1].fetched) = 1 /\ pass[1].fetched[1][1] = 2

\* C36: a run removed from the run set, or added to it, after a sync read
\* the set and while it fetched the runs it read (no time having passed, so
\* no run expired in between) is still removed, or still there, after the
\* sync's final write
C36_InFlightOutcomeKept ==
  [][(SyncFinish("ok") /\ sync.cachedRuns # <<>> /\ syncStatus[1].lastSync = now) =>
       \A id \in CacheRunIds :
         /\ (id \in C30_Ids(sync.cachedRuns) /\ id \notin C27_Ids(runCache))
              => id \notin C27_Ids(runCache')
         /\ (id \notin C30_Ids(sync.cachedRuns) /\ id \in C27_Ids(runCache))
              => id \in C27_Ids(runCache')]_vars

\* the ids of the entries stored for organization 1 in rc that have not
\* expired at time t
C38_LiveIds(rc, t) ==
  IF 1 \in DOMAIN rc
  THEN {rc[1][n].data.id :
          n \in {i \in 1..Len(rc[1]) :
                   rc[1][i].expiresAt = NoExpiry \/ rc[1][i].expiresAt > t}}
  ELSE {}

\* the ids of the entries stored for organization 1 that have expired
C38_ExpiredIds ==
  {runCache[1][n].data.id :
     n \in {i \in 1..Len(runCache[1]) :
              runCache[1][i].expiresAt # NoExpiry /\ runCache[1][i].expiresAt <= now}}

\* the step is a write of organization 1's run set
C38_Write ==
  \/ \E runs \in CacheRunLists : SetRuns(1, runs)
  \/ \E run \in CacheRuns : UpdateRun(1, run)
  \/ \E id \in SyncRunIds : RemoveRun(1, id)
  \/ SyncFinish("ok")

\* the step is a call that adds run id to organization 1's run set
C38_Adds(id) ==
  \/ \E run \in CacheRuns : run.id = id /\ UpdateRun(1, run)
  \/ \E runs \in CacheRunLists : id \in C30_Ids(runs) /\ SetRuns(1, runs)

\* every write leaves only entries that expire 5 minutes after it
C38_WriteRenewsExpiry ==
  C38_Write => \A i \in 1..Len(runCache'[1]) : runCache'[1][i].expiresAt = now + TTL

\* C38: every write of the run set gives every run it keeps an expiresAt of
\* the write time plus 5 minutes and keeps no expired entry; a run whose
\* entry has expired is returned by getAgentRuns again only after a call
\* that adds it again (updateAgentRun, setAgentRuns)
C38_ExpiredRunStaysOut ==
  [][/\ C38_WriteRenewsExpiry
     /\ \A id \in C38_ExpiredIds :
          id \in C38_LiveIds(runCache', now') => C38_Adds(id)]_vars

\* C38 (as the code has it): every write of the run set gives every run it
\* keeps an expiresAt of the write time plus 5 minutes and keeps no expired
\* entry; a run that getAgentRuns does not return is returned again only
\* after a call that adds it, or after the final write of a sync that read
\* it before it expired
C38_ExpiredRunBackBySyncOnly ==
  [][/\ C38_WriteRenewsExpiry
     /\ \A id \in C38_LiveIds(runCache', now') \ C38_LiveIds(runCache, now) :
          \/ C38_Adds(id)
          \/ SyncFinish("ok") /\ id \in C30_Ids(sync.cachedRuns)]_vars

\* a sync read run 1 before it expired and has fetched it after: its final
\* write will store it again
C38_Witness ==
  /\ sync.pc = "write"
  /\ 1 \in C30_Ids(sync.updatedRuns)
  /\ 1 \in C38_ExpiredIds
====
